---- MODULE Spec2Model ----
(***************************************************************************)
(* TimeCreator: the session state machine of DailyTracker                  *)
(* (src/tracker_daily.py) over its sharded store: config.json,             *)
(* current_session.json and one <YYYY>/<MM>/<DD>.json file per date.       *)
(*                                                                         *)
(* Timestamps are integers (clock ticks); the ISO string of an instant is  *)
(* identified with the instant.  A date is the day number of a tick.       *)
(* The "created"/"modified" stamps of a daily file are not modelled.       *)
(*                                                                         *)
(* Every method is a small program of labelled statements (one per source  *)
(* statement that reads or writes shared state).  Step executes one        *)
(* statement; Run executes statements up to a label.  The sequential       *)
(* specifications run a whole call in one action, the fault specification  *)
(* stops a call at a statement that raises, the concurrent specification   *)
(* interleaves the statements of a call with a reader.                     *)
(***************************************************************************)
EXTENDS Integers, Sequences, FiniteSets, TLC

\* ---------------------------------------------------------------- bounds
MaxTime == 2        \* the clock reads 0..MaxTime
DayLen == 2         \* ticks per calendar day
MaxSessions == 2    \* closed sessions kept in the whole store
MonthLen == 2       \* days per <YYYY>/<MM> directory

\* ------------------------------------------------------------ vocabulary
Names == {"programming", "wasted", "stop"}
DefaultCategories == <<"programming", "wasted", "stop">>
Times == 0..MaxTime

None == <<>>
Some(x) == <<x>>

\* tracker.py 20-24: the structure _load_data returns without a file
default_data == [sessions |-> <<>>, categories |-> DefaultCategories, current |-> None]

VARIABLES
    config,                 \* self.config["categories"]
    config_file,            \* categories stored in config.json
    current_session,        \* self.current_session: None or Some([category, start])
    current_session_file,   \* current_session.json: None (no file) or Some(session)
    files,                  \* date -> None (no file) or Some(content of the daily file)
    dirs,                   \* the <YYYY>/<MM> directories that exist (month numbers)
    data,                   \* tracker.TimeTracker's self.data: [sessions, categories, current]
    data_file,              \* data.json: None (no file) or Some(its content)
    backup_file,            \* data.json.backup: None (no file) or Some(its content)
    running,                \* the display's self.running
    update_threads,         \* the _update_loop threads spawned so far, in order
    now,                    \* the wall clock (datetime.now)
    frame,                  \* the call in progress: its position and locals
    frame2,                 \* the call a second thread has in progress
    last,                   \* the call that returned last: operation, argument, result
    seen                    \* what the display thread read last

\* what belongs to the flat-file format
flat == <<data, data_file, backup_file>>

\* what belongs to the status display
display == <<running, update_threads>>

vars == <<config, config_file, current_session, current_session_file, files, dirs,
          flat, display, now, frame, frame2, last, seen>>

\* --------------------------------------------------------- pure helpers
get_date_str(timestamp) == timestamp \div DayLen

calculate_duration(start_time, end_time) == end_time - start_time

Dates == {get_date_str(t) : t \in Times}

Contains(seq, x) == \E i \in 1..Len(seq) : seq[i] = x

EmptyTotals == [c \in {} |-> 0]

\* the default daily structure of _load_daily_data
DefaultDaily(date) ==
    [json |-> "ok", date |-> date, sessions |-> <<>>, total_by_category |-> EmptyTotals]

\* a daily file whose text does not parse (a write that stopped part-way)
CorruptDaily(date) ==
    [json |-> "bad", date |-> date, sessions |-> <<>>, total_by_category |-> EmptyTotals]

\* a daily file that parses to a JSON object without the keys of a record
\* (such as {}); the fields other than json are fillers that no statement reads
MalformedDaily(date) ==
    [json |-> "malformed", date |-> date, sessions |-> <<>>,
     total_by_category |-> EmptyTotals]

\* 86-104: what json.load returns when the file exists and parses, else the
\* default structure
load_daily_data(fs, date) ==
    IF date \in DOMAIN fs /\ fs[date] # None /\ fs[date][1].json # "bad"
    THEN fs[date][1]
    ELSE DefaultDaily(date)

\* the month directory of a date
month_of(date) == date \div MonthLen

get_daily_file_CreatesFile(W, date) ==
    [W EXCEPT !.dirs = @ \cup {month_of(date)},
              !.files = IF date \in DOMAIN @
                        THEN [@ EXCEPT ![date] = IF @ = None THEN Some(DefaultDaily(date))
                                                 ELSE @]
                        ELSE @]

\* _get_daily_file, 75-84: the path of a date's file; the year and month
\* directories are created when missing (mkdir(exist_ok=True))
get_daily_file(W, date) == [W EXCEPT !.dirs = @ \cup {month_of(date)}]

add_to_total_Overwrite(totals, category, duration) ==
    [c \in DOMAIN totals \cup {category} |->
        IF c = category THEN duration ELSE totals[c]]

\* lines 196-199: create the key at 0 if missing, then +=
add_to_total(totals, category, duration) ==
    [c \in DOMAIN totals \cup {category} |->
        IF c = category
        THEN (IF category \in DOMAIN totals THEN totals[category] ELSE 0) + duration
        ELSE totals[c]]

\* ----------------------------------------------------- calls and frames
IdleFrame ==
    [op |-> "idle", pc |-> "done", category |-> "", current |-> None, timestamp |-> 0,
     completed |-> None, start_date |-> 0, daily_data |-> None,
     ret |-> [tag |-> "none", session |-> None],
     at_call |-> None]     \* the current session the engine held when the call began

RetBool(b) == [tag |-> IF b THEN "True" ELSE "False", session |-> None]
RetNone == [tag |-> "None", session |-> None]
RetSession(s) == [tag |-> "session", session |-> Some(s)]
RetError(e) == [tag |-> e, session |-> None]

Entry(op) ==
    CASE op = "start_session" -> "start_check"
      [] op = "stop_session" -> "stop_check"
      [] op = "add_category" -> "add_check"
      [] op = "remove_category" -> "remove_check"

NewFrame(op, category) == [IdleFrame EXCEPT !.op = op, !.pc = Entry(op), !.category = category]

World ==
    [config |-> config, config_file |-> config_file, current_session |-> current_session,
     current_session_file |-> current_session_file, files |-> files, dirs |-> dirs,
     data |-> data, data_file |-> data_file, backup_file |-> backup_file, now |-> now]

Goto(W, F, label) == [w |-> W, f |-> [F EXCEPT !.pc = label]]
Return(W, F, value) == [w |-> W, f |-> [F EXCEPT !.pc = "done", !.ret = value]]

\* ------------------------------------------- start_session, lines 150-172
start_check_AcceptAny(W, F) == Goto(W, F, "start_if_current")

\* 152-153: if category not in self.config["categories"]: return False
start_check(W, F) ==
    IF ~Contains(W.config, F.category)
    THEN Return(W, F, RetBool(FALSE))
    ELSE Goto(W, F, "start_if_current")

start_if_current_NoStop(W, F) == Goto(W, F, "start_if_stop")

\* 156-157: if self.current_session: self.stop_session()
start_if_current(W, F) ==
    IF W.current_session # None
    THEN Goto(W, F, "stop_check")
    ELSE Goto(W, F, "start_if_stop")

start_if_stop_NoSpecialCase(W, F) == Goto(W, F, "start_new")

\* 160: if category == "stop":
start_if_stop(W, F) ==
    IF F.category = "stop"
    THEN Goto(W, F, "start_stop_clear")
    ELSE Goto(W, F, "start_new")

\* 161: self.current_session = None
start_stop_clear(W, F) ==
    Goto([W EXCEPT !.current_session = None], F, "start_stop_unlink")

\* 162-163: self._save_current_session(None); return True
start_stop_unlink(W, F) ==
    Return([W EXCEPT !.current_session_file = None], F, RetBool(TRUE))

start_new_EarlierStart(W, F) ==
    Goto([W EXCEPT !.current_session = Some([category |-> F.category, start |-> 0])],
         [F EXCEPT !.timestamp = 0], "start_save")

\* 166-170: timestamp = self._get_timestamp(); self.current_session = {...}
start_new(W, F) ==
    Goto([W EXCEPT !.current_session = Some([category |-> F.category, start |-> W.now])],
         [F EXCEPT !.timestamp = W.now], "start_save")

start_save_NoWrite(W, F) == Return(W, F, RetBool(TRUE))

\* 171-172: self._save_current_session(self.current_session); return True
\* (_save_current_session, 66-73: None unlinks the file, a value overwrites it)
start_save(W, F) ==
    Return([W EXCEPT !.current_session_file = W.current_session], F, RetBool(TRUE))

\* -------------------------------------------- stop_session, lines 174-207
\* where stop_session returns to: its caller start_session goes on at line 160
stop_return(W, F, value) ==
    IF F.op = "start_session" THEN Goto(W, F, "start_if_stop") ELSE Return(W, F, value)

stop_check_NoGuard(W, F) == Goto(W, F, "stop_read")

\* 176-177: if not self.current_session: return None
stop_check(W, F) ==
    IF W.current_session = None
    THEN stop_return(W, F, RetNone)
    ELSE Goto(W, F, "stop_read")

\* 179-188: current = self.current_session; timestamp; completed_session
\* (current is None when another thread cleared the field after line 176:
\* current["category"] raises TypeError)
stop_read(W, F) ==
    IF W.current_session = None
    THEN Return(W, F, RetError("TypeError"))
    ELSE LET current == W.current_session[1]
         IN Goto(W,
                 [F EXCEPT !.current = W.current_session,
                           !.timestamp = W.now,
                           !.completed = Some([category |-> current.category,
                                               start |-> current.start,
                                               end |-> W.now,
                                               duration |-> calculate_duration(current.start, W.now)])],
                 "stop_load")

stop_load_ClearEarly(W, F) ==
    LET completed == F.completed[1]
        start_date == get_date_str(F.current[1].start)
        loaded == load_daily_data(W.files, start_date)
        W1 == [get_daily_file(W, start_date) EXCEPT
                    !.current_session = None, !.current_session_file = None]
    IN IF loaded.json = "malformed"
       THEN Return(W1, F, RetError("KeyError"))
       ELSE Goto(W1,
            [F EXCEPT !.start_date = start_date,
                      !.daily_data = Some([loaded EXCEPT
                          !.sessions = Append(@, completed),
                          !.total_by_category =
                              add_to_total(@, completed.category, completed.duration)])],
            "stop_save")

stop_load_EndDate(W, F) ==
    LET completed == F.completed[1]
        start_date == get_date_str(completed.end)
        loaded == load_daily_data(W.files, start_date)
        W1 == get_daily_file(W, start_date)
    IN IF loaded.json = "malformed"
       THEN Return(W1, F, RetError("KeyError"))
       ELSE Goto(W1,
            [F EXCEPT !.start_date = start_date,
                      !.daily_data = Some([loaded EXCEPT
                          !.sessions = Append(@, completed),
                          !.total_by_category =
                              add_to_total(@, completed.category, completed.duration)])],
            "stop_save")

\* 191-199: start_date; daily_data = self._load_daily_data(start_date);
\* append the completed session; update total_by_category.
\* daily_data["sessions"] raises KeyError on a record without the key
stop_load(W, F) ==
    LET completed == F.completed[1]
        start_date == get_date_str(F.current[1].start)
        loaded == load_daily_data(W.files, start_date)
        W1 == get_daily_file(W, start_date)
    IN IF loaded.json = "malformed"
       THEN Return(W1, F, RetError("KeyError"))
       ELSE Goto(W1,
            [F EXCEPT !.start_date = start_date,
                      !.daily_data = Some([loaded EXCEPT
                          !.sessions = Append(@, completed),
                          !.total_by_category =
                              add_to_total(@, completed.category, completed.duration)])],
            "stop_save")

stop_save_NoWrite(W, F) == Goto(W, F, "stop_clear")

\* 201: self._save_daily_data(start_date, daily_data)
stop_save(W, F) ==
    Goto([W EXCEPT !.files[F.start_date] = F.daily_data], F, "stop_clear")

\* 201 raising (_save_daily_data, 106-112: open(daily_file, 'w') and json.dump).
\* The file is as before when open fails, holds an unparseable prefix when the
\* dump stops part-way, and holds the whole record when the error comes at close.
\* stop_session and start_session catch nothing: the call ends with the error.
stop_save_raises(W, F, outcome) ==
    Return([W EXCEPT !.files[F.start_date] =
                CASE outcome = "untouched" -> @
                  [] outcome = "truncated" -> Some(CorruptDaily(F.start_date))
                  [] outcome = "written" -> F.daily_data],
           F, RetError("OSError"))

WriteOutcomes == {"untouched", "truncated", "written"}

\* 204: self.current_session = None
stop_clear(W, F) ==
    Goto([W EXCEPT !.current_session = None], F, "stop_unlink")

\* 205-207: self._save_current_session(None); return completed_session
stop_unlink(W, F) ==
    stop_return([W EXCEPT !.current_session_file = None], F,
                IF F.completed = None THEN RetNone ELSE RetSession(F.completed[1]))

\* ------------------------------ add_category / remove_category, 130-144
add_check_AlwaysAppend(W, F) == Goto(W, F, "add_append")

\* 132, 136: if category not in self.config["categories"]: ... return False
add_check(W, F) ==
    IF ~Contains(W.config, F.category)
    THEN Goto(W, F, "add_append")
    ELSE Return(W, F, RetBool(FALSE))

\* 133: self.config["categories"].append(category)
add_append(W, F) ==
    Goto([W EXCEPT !.config = Append(@, F.category)], F, "add_save")

\* 134-135: self._save_config(self.config); return True
add_save(W, F) ==
    Return([W EXCEPT !.config_file = W.config], F, RetBool(TRUE))

remove_check_NoLengthGuard(W, F) ==
    IF Contains(W.config, F.category)
    THEN Goto(W, F, "remove_remove")
    ELSE Return(W, F, RetBool(FALSE))

\* 140, 144: if category in categories and len(categories) > 1: ... return False
remove_check(W, F) ==
    IF Contains(W.config, F.category) /\ Len(W.config) > 1
    THEN Goto(W, F, "remove_remove")
    ELSE Return(W, F, RetBool(FALSE))

\* list.remove: drops the first occurrence
ListRemove(seq, x) ==
    LET i == CHOOSE k \in 1..Len(seq) : seq[k] = x /\ \A j \in 1..(k - 1) : seq[j] # x
    IN SubSeq(seq, 1, i - 1) \o SubSeq(seq, i + 1, Len(seq))

\* 141: self.config["categories"].remove(category)
remove_remove(W, F) ==
    Goto([W EXCEPT !.config = IF Contains(@, F.category) THEN ListRemove(@, F.category) ELSE @],
         F, "remove_save")

\* 142-143: self._save_config(self.config); return True
remove_save(W, F) ==
    Return([W EXCEPT !.config_file = W.config], F, RetBool(TRUE))

\* ------------------------------------------------------- the interpreter
Step(W, F) ==
    CASE F.pc = "start_check" -> start_check(W, F)
      [] F.pc = "start_if_current" -> start_if_current(W, F)
      [] F.pc = "start_if_stop" -> start_if_stop(W, F)
      [] F.pc = "start_stop_clear" -> start_stop_clear(W, F)
      [] F.pc = "start_stop_unlink" -> start_stop_unlink(W, F)
      [] F.pc = "start_new" -> start_new(W, F)
      [] F.pc = "start_save" -> start_save(W, F)
      [] F.pc = "stop_check" -> stop_check(W, F)
      [] F.pc = "stop_read" -> stop_read(W, F)
      [] F.pc = "stop_load" -> stop_load(W, F)
      [] F.pc = "stop_save" -> stop_save(W, F)
      [] F.pc = "stop_clear" -> stop_clear(W, F)
      [] F.pc = "stop_unlink" -> stop_unlink(W, F)
      [] F.pc = "add_check" -> add_check(W, F)
      [] F.pc = "add_append" -> add_append(W, F)
      [] F.pc = "add_save" -> add_save(W, F)
      [] F.pc = "remove_check" -> remove_check(W, F)
      [] F.pc = "remove_remove" -> remove_remove(W, F)
      [] F.pc = "remove_save" -> remove_save(W, F)

\* run the call until it returns or is about to execute the statement `upto`
RECURSIVE Run(_, _, _)
Run(W, F, upto) ==
    IF F.pc = "done" \/ F.pc = upto
    THEN [w |-> W, f |-> F]
    ELSE LET r == Step(W, F) IN Run(r.w, r.f, upto)

\* ------------------------------------------------------------ the store
\* the content a reader gets for a date (get_daily_sessions, get_daily_stats)
Record(d) == load_daily_data(files, d)

RECURSIVE SumOver(_, _)
SumOver(S, f) ==
    IF S = {} THEN 0 ELSE LET x == CHOOSE y \in S : TRUE IN f[x] + SumOver(S \ {x}, f)

NumSessions == SumOver(Dates, [d \in Dates |-> Len(Record(d).sessions)])

\* list_available_dates, 356-376: the dates whose file exists
list_available_dates == {d \in Dates : files[d] # None}

\* ------------------------------------------------------ initial state
\* config.json as an earlier run may have left it: the default list, the list
\* after remove_category("stop"), the list after remove_category("wasted")
InitConfigs ==
    {DefaultCategories, <<"programming", "wasted">>, <<"programming", "stop">>}

\* `last`: the operation, its argument, the tag of its result, and the current
\* session the engine held when the call was made
NoCall == [op |-> "none", category |-> "", ret |-> "none", current |-> None]

\* DailyTracker() on a data directory that holds at most a config.json:
\* _load_config reads it (or writes the default one), there is no
\* current_session.json and no daily file
Init ==
    /\ config \in InitConfigs
    /\ config_file = config
    /\ current_session = None
    /\ current_session_file = None
    /\ files = [d \in Dates |-> None]
    /\ dirs = {}
    /\ data = default_data
    /\ data_file = None
    /\ backup_file = None
    /\ running = FALSE
    /\ update_threads = <<>>
    /\ now = 0
    /\ frame = IdleFrame
    /\ frame2 = IdleFrame
    /\ last = NoCall
    /\ seen = [during |-> FALSE, session |-> None, file |-> None,
               pc |-> "idle", duration |-> "none"]

Assign(W) ==
    /\ config' = W.config
    /\ config_file' = W.config_file
    /\ current_session' = W.current_session
    /\ current_session_file' = W.current_session_file
    /\ files' = W.files
    /\ dirs' = W.dirs
    /\ data' = W.data
    /\ data_file' = W.data_file
    /\ backup_file' = W.backup_file
    /\ UNCHANGED display
    /\ now' = W.now

\* a whole call, run to its return.  The clock may advance by adv between the
\* reading of stop_session (line 180) and the reading of start_session (line 166).
\* `tracked` says whether the call's result is kept in `last`.
Call(op, category, tracked) ==
    LET r1 == Run(World, NewFrame(op, category), "start_new")
    IN \E adv \in (IF r1.f.pc = "start_new" /\ now < MaxTime THEN {0, 1} ELSE {0}) :
        LET r2 == IF r1.f.pc = "start_new"
                  THEN Run([r1.w EXCEPT !.now = @ + adv], r1.f, "return")
                  ELSE r1
        IN /\ Assign(r2.w)
           /\ last' = IF tracked
                      THEN [op |-> op, category |-> category, ret |-> r2.f.ret.tag,
                            current |-> current_session]
                      ELSE NoCall
           /\ UNCHANGED <<frame, frame2, seen>>

\* the store keeps at most MaxSessions closed sessions: a call that would close
\* one more is not taken
Room == current_session = None \/ NumSessions < MaxSessions

StartSession(category) ==
    /\ frame.op = "idle"
    /\ Room
    /\ Call("start_session", category, TRUE)

StopSession ==
    /\ frame.op = "idle"
    /\ Room
    /\ Call("stop_session", "", TRUE)

\* time passes
Tick ==
    /\ frame.op = "idle"
    /\ now < MaxTime
    /\ now' = now + 1
    /\ last' = NoCall
    /\ UNCHANGED <<config, config_file, current_session, current_session_file, files, dirs, flat, display, frame2,
                   frame, seen>>

\* the wall clock is set back (an NTP step, a manual change of the system time):
\* datetime.now(timezone.utc) is not monotonic
ClockSetBack ==
    /\ frame.op = "idle"
    /\ now > 0
    /\ now' = now - 1
    /\ last' = NoCall
    /\ UNCHANGED <<config, config_file, current_session, current_session_file, files, dirs, flat, display, frame2,
                   frame, seen>>

\* sequential calls under a clock that never goes back
Next ==
    \/ \E c \in Names : StartSession(c)
    \/ StopSession
    \/ Tick

Spec == Init /\ [][Next]_vars

\* sequential calls under the wall clock
NextSkew ==
    \/ \E c \in Names : StartSession(c)
    \/ StopSession
    \/ Tick
    \/ ClockSetBack

SpecSkew == Init /\ [][NextSkew]_vars

\* ---------------------------------------- sessions and category edits
StartSessionC(category) ==
    /\ frame.op = "idle"
    /\ Room
    /\ Call("start_session", category, FALSE)

StopSessionC ==
    /\ frame.op = "idle"
    /\ Room
    /\ Call("stop_session", "", FALSE)

AddCategoryC(category) ==
    /\ frame.op = "idle"
    /\ Call("add_category", category, FALSE)

RemoveCategoryC(category) ==
    /\ frame.op = "idle"
    /\ Call("remove_category", category, FALSE)

NextCategories ==
    \/ \E c \in Names : StartSessionC(c)
    \/ StopSessionC
    \/ \E c \in Names : AddCategoryC(c)
    \/ \E c \in Names : RemoveCategoryC(c)
    \/ Tick

InitCategories ==
    /\ Init
    /\ config = DefaultCategories

SpecCategories == InitCategories /\ [][NextCategories]_vars

\* ----------------------------------------------- category edits alone
\* the names a caller passes: the default ones, the one test.py adds (line 27),
\* and that one with another case
CategoryNames == Names \cup {"testing", "Testing"}

AddCategory(category) ==
    /\ frame.op = "idle"
    /\ Call("add_category", category, TRUE)

RemoveCategory(category) ==
    /\ frame.op = "idle"
    /\ Call("remove_category", category, TRUE)

NextConfig ==
    \/ \E c \in CategoryNames : AddCategory(c)
    \/ \E c \in CategoryNames : RemoveCategory(c)

SpecConfig == Init /\ [][NextConfig]_vars

\* ------------------------------------------ calls whose daily write fails
\* the call runs up to line 201, which raises
FailingCall(op, category) ==
    LET r1 == Run(World, NewFrame(op, category), "stop_save")
    IN /\ r1.f.pc = "stop_save"
       /\ \E outcome \in WriteOutcomes :
            LET r2 == stop_save_raises(r1.w, r1.f, outcome)
            IN /\ Assign(r2.w)
               /\ last' = [op |-> op, category |-> category, ret |-> r2.f.ret.tag,
                           current |-> current_session]
               /\ UNCHANGED <<frame, frame2, seen>>

StopSessionFails ==
    /\ frame.op = "idle"
    /\ Room
    /\ FailingCall("stop_session", "")

StartSessionFails(category) ==
    /\ frame.op = "idle"
    /\ Room
    /\ FailingCall("start_session", category)

NextFault ==
    \/ \E c \in Names : StartSession(c)
    \/ StopSession
    \/ Tick
    \/ StopSessionFails
    \/ \E c \in Names : StartSessionFails(c)

SpecFault == Init /\ [][NextFault]_vars

\* ------------------------------------- a call interleaved with a reader
\* the call in progress is a switch: start_session(c2), c2 registered and not
\* "stop", begun while a session was open
Switching ==
    /\ frame.op = "start_session"
    /\ frame.at_call # None
    /\ Contains(config, frame.category)
    /\ frame.category # "stop"

\* a thread (hotkey handler, picker thread, tray menu) enters a method
BeginCall(op, category) ==
    /\ frame.op = "idle"
    /\ Room
    /\ frame' = [NewFrame(op, category) EXCEPT !.at_call = current_session]
    /\ UNCHANGED <<config, config_file, current_session, current_session_file, files, dirs, flat, display, frame2,
                   now, last, seen>>

\* the thread executes its next statement; the statement that returns ends the call
StepCall ==
    /\ frame.op # "idle"
    /\ LET r == Step(World, frame)
       IN /\ Assign(r.w)
          /\ IF r.f.pc = "done"
             THEN /\ frame' = IdleFrame
                  /\ last' = [op |-> frame.op, category |-> frame.category,
                              ret |-> r.f.ret.tag, current |-> frame.at_call]
             ELSE /\ frame' = r.f
                  /\ UNCHANGED last
    /\ UNCHANGED <<frame2, seen>>

\* the display thread (status.py 165-167, overlay.py 230-232) calls
\* get_current_session; an observer of the data directory reads current_session.json
Read ==
    /\ seen.pc = "idle"
    /\ seen' = [seen EXCEPT !.during = Switching, !.session = current_session,
                            !.file = current_session_file]
    /\ UNCHANGED <<config, config_file, current_session, current_session_file, files, dirs, flat, display, frame2,
                   now, frame, last>>

\* time passes, also while a call is in progress
TickDuringCall ==
    /\ now < MaxTime
    /\ now' = now + 1
    /\ UNCHANGED <<config, config_file, current_session, current_session_file, files, dirs, flat, display, frame2,
                   frame, last, seen>>

NextConc ==
    \/ \E c \in Names : BeginCall("start_session", c)
    \/ BeginCall("stop_session", "")
    \/ StepCall
    \/ Read
    \/ TickDuringCall

SpecConc == Init /\ [][NextConc]_vars

\* ------------------------- get_current_duration, lines 215-222, in the
\* display thread (status.py 172, gui.py 52), statement by statement
\* 217-218: if not self.current_session: return None
get_current_duration_check(W, R) ==
    IF W.current_session = None
    THEN [R EXCEPT !.pc = "idle", !.duration = "None"]
    ELSE [R EXCEPT !.pc = "duration_read"]

\* 220-222: start = fromisoformat(self.current_session["start"]...); return
\* (now - start).total_seconds().  The field is read again: None["start"]
\* raises TypeError
get_current_duration_read(W, R) ==
    IF W.current_session = None
    THEN [R EXCEPT !.pc = "idle", !.duration = "TypeError"]
    ELSE [R EXCEPT !.pc = "idle", !.duration = "float"]

DurationCheck ==
    /\ seen.pc = "idle"
    /\ seen' = get_current_duration_check(World, seen)
    /\ UNCHANGED <<config, config_file, current_session, current_session_file, files, dirs, flat, display, frame2,
                   now, frame, last>>

DurationRead ==
    /\ seen.pc = "duration_read"
    /\ seen' = get_current_duration_read(World, seen)
    /\ UNCHANGED <<config, config_file, current_session, current_session_file, files, dirs, flat, display, frame2,
                   now, frame, last>>

NextReads ==
    \/ \E c \in Names : BeginCall("start_session", c)
    \/ BeginCall("stop_session", "")
    \/ StepCall
    \/ DurationCheck
    \/ DurationRead
    \/ TickDuringCall

SpecReads == Init /\ [][NextReads]_vars

\* ------------------------------------- the constructor, lines 14-64
\* _load_config, 26-41: config.json exists and parses, its content is the
\* configuration
load_config(W) == [W EXCEPT !.config = W.config_file]

load_current_session_Keep(W) ==
    [W EXCEPT !.current_session = W.current_session_file]

\* _load_current_session, 48-64: no file, None; a session without "end" is
\* discarded and its file unlinked (_save_current_session(None)); any other
\* content is returned
load_current_session(W) ==
    IF W.current_session_file = None
    THEN [W EXCEPT !.current_session = None]
    ELSE LET session == W.current_session_file[1]
         IN IF "end" \notin DOMAIN session
            THEN [W EXCEPT !.current_session = None, !.current_session_file = None]
            ELSE [W EXCEPT !.current_session = Some(session)]

\* the process ends between two calls and a new DailyTracker is constructed on
\* the same data directory.  `last` keeps what the old process held.
Restart ==
    /\ frame.op = "idle"
    /\ Assign(load_current_session(load_config(World)))
    /\ last' = [op |-> "restart", category |-> "", ret |-> "None",
                current |-> current_session, file |-> current_session_file,
                files |-> files]
    /\ UNCHANGED <<frame, frame2, seen>>

NextRestart ==
    \/ \E c \in Names : StartSession(c)
    \/ StopSession
    \/ Tick
    \/ Restart

SpecRestart == Init /\ [][NextRestart]_vars

\* ------------------------------ migrate_from_old_format, lines 298-354
\* A legacy data file (tracker.py's data.json) is None (no file) or
\* Some([json, categories, sessions, current]); a key that is missing (or
\* null, for "current") is None.  A legacy session is a record that may lack
\* "end" or "category".
\* the session lists tracker.py writes: closed sessions in the order they
\* were closed.  One session; two sessions of one category, the second ending
\* on the next date; the same with two categories; two dates.
LegacyLists ==
    { <<[category |-> "programming", start |-> 0, end |-> 1]>>,
      <<[category |-> "programming", start |-> 0, end |-> 1],
        [category |-> "programming", start |-> 1, end |-> MaxTime]>>,
      <<[category |-> "programming", start |-> 0, end |-> 1],
        [category |-> "wasted", start |-> 1, end |-> MaxTime]>>,
      <<[category |-> "wasted", start |-> 0, end |-> 1],
        [category |-> "programming", start |-> MaxTime, end |-> MaxTime]>> }

\* lists tracker.py's import_data (149-160) accepts as well: an entry
\* without "end", an entry without "category"
LegacyOddLists ==
    { <<>>,
      <<[category |-> "programming", start |-> 0],
        [category |-> "wasted", start |-> 0, end |-> MaxTime]>>,
      <<[category |-> "programming", start |-> 0, end |-> 0],
        [start |-> MaxTime, end |-> MaxTime]>> }

LegacyCategories ==
    {None, Some(<<>>), Some(<<"programming", "stop">>)}

LegacyCurrent == {None, Some([category |-> "wasted", start |-> 0])}

\* no file; a file that does not parse; files of sessions only; files with
\* a category list and a current session
LegacyFiles ==
    {None, Some([json |-> "bad", categories |-> None, sessions |-> None,
                 current |-> None])}
    \cup {Some([json |-> "ok", categories |-> None, sessions |-> Some(l),
                current |-> None]) : l \in LegacyLists}
    \cup {Some([json |-> "ok", categories |-> x[1], sessions |-> Some(x[2]),
                current |-> x[3]]) :
            x \in LegacyCategories \X LegacyOddLists \X LegacyCurrent}

\* the writes of the import that may raise OSError
Writes == {"config", "daily", "current"}

\* 308-310: the category list is replaced in memory, then saved
migrate_categories(W, old_data, fault) ==
    IF old_data.categories = None
    THEN [w |-> W, error |-> "none"]
    ELSE LET W1 == [W EXCEPT !.config = old_data.categories[1]]
         IN IF fault = "config"
            THEN [w |-> W1, error |-> "OSError"]
            ELSE [w |-> [W1 EXCEPT !.config_file = W1.config], error |-> "none"]

\* 316-329: entries without "start" or "end" are skipped, the others get
\* their duration
migrated_sessions(sessions) ==
    LET kept == SelectSeq(sessions,
                    LAMBDA x : "start" \in DOMAIN x /\ "end" \in DOMAIN x)
    IN [i \in 1..Len(kept) |->
          LET x == kept[i]
              duration == calculate_duration(x.start, x.end)
          IN IF "category" \in DOMAIN x
             THEN [category |-> x.category, start |-> x.start, end |-> x.end,
                   duration |-> duration]
             ELSE [start |-> x.start, end |-> x.end, duration |-> duration]]

\* the sessions of sessions_by_date[date], 319-329
sessions_of_date(sessions, date) ==
    SelectSeq(sessions, LAMBDA x : get_date_str(x.start) = date)

\* the keys of sessions_by_date in insertion order
RECURSIVE dates_in_order(_)
dates_in_order(sessions) ==
    IF sessions = <<>>
    THEN <<>>
    ELSE LET date == get_date_str(Head(sessions).start)
         IN <<date>> \o dates_in_order(SelectSeq(Tail(sessions),
                            LAMBDA x : get_date_str(x.start) # date))

RECURSIVE migrate_totals_Overwrite(_, _)
migrate_totals_Overwrite(totals, sessions) ==
    IF sessions = <<>>
    THEN totals
    ELSE migrate_totals_Overwrite(
            add_to_total_Overwrite(totals, Head(sessions).category,
                                   Head(sessions).duration),
            Tail(sessions))

\* 337-341: every session's duration is added onto the record's totals
RECURSIVE migrate_totals(_, _)
migrate_totals(totals, sessions) ==
    IF sessions = <<>>
    THEN totals
    ELSE migrate_totals(
            add_to_total(totals, Head(sessions).category, Head(sessions).duration),
            Tail(sessions))

\* 332-343: for every date, the record is loaded, its sessions are SET to the
\* imported ones (334), the totals are added onto the loaded ones, the record
\* is saved.  session["category"] raises KeyError for an entry without it,
\* and daily_data["total_by_category"] for a loaded record without that key.
RECURSIVE migrate_daily(_, _, _, _)
migrate_daily(W, dates, sessions, fault) ==
    IF dates = <<>>
    THEN [w |-> W, error |-> "none"]
    ELSE LET date_str == Head(dates)
             group == sessions_of_date(sessions, date_str)
             daily_data == load_daily_data(W.files, date_str)
             W1 == get_daily_file(W, date_str)
         IN IF \/ \E i \in 1..Len(group) : "category" \notin DOMAIN group[i]
               \/ daily_data.json = "malformed"
            THEN [w |-> W1, error |-> "KeyError"]
            ELSE IF fault = "daily"
            THEN [w |-> W1, error |-> "OSError"]
            ELSE migrate_daily(
                    [W1 EXCEPT !.files[date_str] =
                        Some([daily_data EXCEPT
                                !.sessions = group,
                                !.total_by_category =
                                    migrate_totals(daily_data.total_by_category, group)])],
                    Tail(dates), sessions, fault)

\* 313-343
migrate_sessions(W, old_data, fault) ==
    IF old_data.sessions = None
    THEN [w |-> W, error |-> "none"]
    ELSE LET sessions == migrated_sessions(old_data.sessions[1])
         IN migrate_daily(W, dates_in_order(sessions), sessions, fault)

migrate_current_NoSave(W, old_data, fault) ==
    IF old_data.current = None
    THEN [w |-> W, error |-> "none"]
    ELSE [w |-> [W EXCEPT !.current_session = old_data.current], error |-> "none"]

\* 346-348: a legacy current session becomes the engine's, then is saved
migrate_current(W, old_data, fault) ==
    IF old_data.current = None
    THEN [w |-> W, error |-> "none"]
    ELSE LET W1 == [W EXCEPT !.current_session = old_data.current]
         IN IF fault = "current"
            THEN [w |-> W1, error |-> "OSError"]
            ELSE [w |-> [W1 EXCEPT !.current_session_file = W1.current_session],
                  error |-> "none"]

\* the whole method: False when the file is missing (300-301); any exception
\* of the body is caught, printed and turned into False (352-354).  `error`
\* is the exception that was caught.
migrate_from_old_format(W, old_data_file, fault) ==
    IF old_data_file = None
    THEN [w |-> W, ret |-> "False", error |-> "none"]
    ELSE IF old_data_file[1].json # "ok"
    THEN [w |-> W, ret |-> "False", error |-> "JSONDecodeError"]
    ELSE LET old_data == old_data_file[1]
             r1 == migrate_categories(W, old_data, fault)
             r2 == IF r1.error = "none" THEN migrate_sessions(r1.w, old_data, fault)
                   ELSE r1
             r3 == IF r2.error = "none" THEN migrate_current(r2.w, old_data, fault)
                   ELSE r2
         IN [w |-> r3.w, ret |-> IF r3.error = "none" THEN "True" ELSE "False",
             error |-> r3.error]

\* seconds held by a list of (closed) sessions / by all totals of a store
RECURSIVE SumSeq(_)
SumSeq(durations) ==
    IF durations = <<>> THEN 0 ELSE Head(durations) + SumSeq(Tail(durations))

TotalOf(totals) == SumOver(DOMAIN totals, totals)

StoredTotals(fs) ==
    SumOver(Dates, [d \in Dates |-> TotalOf(load_daily_data(fs, d).total_by_category)])

LegacySeconds(old_data_file) ==
    IF old_data_file = None \/ old_data_file[1].sessions = None
    THEN 0
    ELSE LET sessions == migrated_sessions(old_data_file[1].sessions[1])
         IN SumSeq([i \in 1..Len(sessions) |-> sessions[i].duration])

\* the totals of the store stay within MaxTime seconds: an
\* import that would take them further is not taken
ImportRoom(old_data_file) ==
    StoredTotals(files) + LegacySeconds(old_data_file) <= MaxTime

MigrateCall(old_data_file, fault) ==
    LET r == migrate_from_old_format(World, old_data_file, fault)
    IN /\ ImportRoom(old_data_file)
       /\ fault # "none" => r.error = "OSError"
       /\ Assign(r.w)
       /\ last' = [op |-> "migrate", category |-> "", ret |-> r.ret,
                   current |-> current_session, legacy |-> old_data_file,
                   error |-> r.error, fresh |-> (files = [d \in Dates |-> None])]
       /\ UNCHANGED <<frame, frame2, seen>>

\* the import with every write succeeding
Migrate ==
    /\ frame.op = "idle"
    /\ \E old_data_file \in LegacyFiles : MigrateCall(old_data_file, "none")

\* the import with one write raising OSError
MigrateFails ==
    /\ frame.op = "idle"
    /\ \E old_data_file \in LegacyFiles, fault \in Writes :
            MigrateCall(old_data_file, fault)

NextImport ==
    \/ Migrate
    \/ MigrateFails

SpecImport == Init /\ [][NextImport]_vars

\* --------------- the compatibility TimeTracker's constructor, 382-397
TimeTracker_init_Consume(W, fault) ==
    LET W1 == load_current_session(load_config(W))
    IN IF W1.data_file = None
       THEN [w |-> W1, ret |-> "none", error |-> "none"]
       ELSE LET r == migrate_from_old_format(W1, W1.data_file, fault)
            IN IF r.ret = "True"
               THEN [w |-> [r.w EXCEPT !.backup_file = r.w.data_file, !.data_file = None],
                     ret |-> r.ret, error |-> r.error]
               ELSE r

\* super().__init__() (the DailyTracker constructor), then, when data.json
\* exists, the import; a successful import is followed by a copy of data.json
\* to data.json.backup (shutil.copy2).  Nothing removes or renames data.json.
\* `ret` is what the import returned ("none" when it was not run).
TimeTracker_init(W, fault) ==
    LET W1 == load_current_session(load_config(W))
    IN IF W1.data_file = None
       THEN [w |-> W1, ret |-> "none", error |-> "none"]
       ELSE LET r == migrate_from_old_format(W1, W1.data_file, fault)
            IN IF r.ret = "True"
               THEN [w |-> [r.w EXCEPT !.backup_file = r.w.data_file],
                     ret |-> r.ret, error |-> r.error]
               ELSE r

\* a fresh data directory next to a data.json that tracker.py (or its
\* import_data) may have left, or next to none
InitStartup ==
    /\ config \in InitConfigs
    /\ config_file = config
    /\ current_session = None
    /\ current_session_file = None
    /\ files = [d \in Dates |-> None]
    /\ dirs = {}
    /\ data = default_data
    /\ data_file \in LegacyFiles
    /\ backup_file = None
    /\ running = FALSE
    /\ update_threads = <<>>
    /\ now = 0
    /\ frame = IdleFrame
    /\ frame2 = IdleFrame
    /\ last = NoCall
    /\ seen = [during |-> FALSE, session |-> None, file |-> None,
               pc |-> "idle", duration |-> "none"]

\* the application starts: `last` keeps what the import returned, the sum of
\* the stored totals before it, and whether the call before was a startup too
StartupCall(fault) ==
    LET r == TimeTracker_init(World, fault)
    IN /\ ImportRoom(data_file)
       /\ fault # "none" => r.error = "OSError"
       /\ Assign(r.w)
       /\ last' = [op |-> "startup", category |-> "", ret |-> r.ret,
                   current |-> current_session, error |-> r.error,
                   totals |-> StoredTotals(files), again |-> (last.op = "startup")]
       /\ UNCHANGED <<frame, frame2, seen>>

Startup ==
    /\ frame.op = "idle"
    /\ StartupCall("none")

StartupFails ==
    /\ frame.op = "idle"
    /\ \E fault \in Writes : StartupCall(fault)

NextStartup ==
    \/ Startup
    \/ StartupFails

SpecStartup == InitStartup /\ [][NextStartup]_vars

\* ------------------------------------------------- python numbers
\* A float is modelled by the rational it stands for, [num, den] in lowest
\* terms with den > 0; rounding is not modelled.  An int n is n/1.
SecondsPerHour == 3600
Percent == 100

Abs(n) == IF n < 0 THEN -n ELSE n

RECURSIVE GCD(_, _)
GCD(a, b) == IF b = 0 THEN a ELSE GCD(b, a % b)

Rat(n, d) == LET g == GCD(Abs(n), d) IN [num |-> n \div g, den |-> d \div g]

Zero == Rat(0, 1)
RatAdd(a, b) == Rat(a.num * b.den + b.num * a.den, a.den * b.den)
RatDiv(a, b) == Rat(a.num * b.den, a.den * b.num)
RatTimes(a, n) == Rat(a.num * n, a.den)
RatOver(a, n) == Rat(a.num, a.den * n)
RatLess(a, b) == a.num * b.den < b.num * a.den
RatMax(a, b) == IF RatLess(a, b) THEN b ELSE a

\* sum(f.values())
RECURSIVE RatSum(_, _)
RatSum(S, f) ==
    IF S = {} THEN Zero
    ELSE LET x == CHOOSE y \in S : TRUE IN RatAdd(f[x], RatSum(S \ {x}, f))

\* ------------------------- get_daily_stats / get_daily_sessions, 224-232
\* {cat: hours / 3600 ...} over every key of total_by_category; KeyError when
\* the loaded object has no "total_by_category"
get_daily_stats(fs, date) ==
    LET daily_data == load_daily_data(fs, date)
    IN IF daily_data.json = "malformed"
       THEN [tag |-> "KeyError", value |-> None]
       ELSE [tag |-> "dict",
             value |-> Some([cat \in DOMAIN daily_data.total_by_category |->
                               Rat(daily_data.total_by_category[cat], SecondsPerHour)])]

\* the list of sessions; KeyError when the loaded object has no "sessions"
get_daily_sessions(fs, date) ==
    LET daily_data == load_daily_data(fs, date)
    IN IF daily_data.json = "malformed"
       THEN [tag |-> "KeyError", value |-> None]
       ELSE [tag |-> "list", value |-> Some(daily_data.sessions)]

\* what the constructor may find at the path of a date's file: nothing, a
\* file that does not parse, a file that parses without being a record
FoundFiles(date) == {None, Some(CorruptDaily(date)), Some(MalformedDaily(date))}

InitLoad ==
    /\ config \in InitConfigs
    /\ config_file = config
    /\ current_session = None
    /\ current_session_file = None
    /\ files \in [Dates -> UNION {FoundFiles(d) : d \in Dates}]
    /\ \A d \in Dates : files[d] \in FoundFiles(d)
    /\ dirs = {month_of(d) : d \in {e \in Dates : files[e] # None}}
    /\ data = default_data
    /\ data_file = None
    /\ backup_file = None
    /\ running = FALSE
    /\ update_threads = <<>>
    /\ now = 0
    /\ frame = IdleFrame
    /\ frame2 = IdleFrame
    /\ last = NoCall
    /\ seen = [during |-> FALSE, session |-> None, file |-> None,
               pc |-> "idle", duration |-> "none"]

ReadCall(op, date, r) ==
    /\ last' = [op |-> op, category |-> "", ret |-> r.tag, current |-> current_session,
                date |-> date, value |-> r.value]
    /\ dirs' = get_daily_file(World, date).dirs
    /\ UNCHANGED <<config, config_file, current_session, current_session_file, files,
                   flat, display, frame2, now, frame, seen>>

GetDailyStats ==
    /\ frame.op = "idle"
    /\ \E date \in Dates : ReadCall("get_daily_stats", date, get_daily_stats(files, date))

GetDailySessions ==
    /\ frame.op = "idle"
    /\ \E date \in Dates :
            ReadCall("get_daily_sessions", date, get_daily_sessions(files, date))

NextLoad ==
    \/ \E c \in Names : StartSessionC(c)
    \/ StopSessionC
    \/ Tick
    \/ GetDailyStats
    \/ GetDailySessions

SpecLoad == InitLoad /\ [][NextLoad]_vars

\* ------------------------------------- get_category_totals, 251-296
\* 257-266: an entry for every configured category but "stop"
category_stats_init(categories) ==
    [category \in {categories[i] : i \in 1..Len(categories)} \ {"stop"} |->
        [total_hours |-> Zero, days_active |-> 0, average_per_day |-> Zero,
         max_day_hours |-> Zero]]

\* 277-284: one day's hours are added to the entries of the categories that
\* have one
category_stats_add(category_stats, daily_stats) ==
    [category \in DOMAIN category_stats |->
        IF category \in DOMAIN daily_stats
        THEN LET hours == daily_stats[category]
             IN [category_stats[category] EXCEPT
                    !.total_hours = RatAdd(@, hours),
                    !.days_active = IF RatLess(Zero, hours) THEN @ + 1 ELSE @,
                    !.max_day_hours = IF RatLess(Zero, hours) THEN RatMax(@, hours) ELSE @]
        ELSE category_stats[category]]

RECURSIVE category_totals_scan_Exclusive(_, _, _, _, _)
category_totals_scan_Exclusive(fs, category_stats, current, end_date, scanned) ==
    IF current >= end_date
    THEN [tag |-> "dict", stats |-> category_stats, scanned |-> scanned]
    ELSE LET daily_stats == get_daily_stats(fs, current)
         IN IF daily_stats.tag # "dict"
            THEN [tag |-> daily_stats.tag, stats |-> category_stats,
                  scanned |-> Append(scanned, current)]
            ELSE category_totals_scan_Exclusive(fs,
                    category_stats_add(category_stats, daily_stats.value[1]),
                    current + 1, end_date, Append(scanned, current))

\* 269-286: while current <= end_date, a day at a time; `scanned` lists the
\* dates whose record was loaded (days_scanned is its length)
RECURSIVE category_totals_scan(_, _, _, _, _)
category_totals_scan(fs, category_stats, current, end_date, scanned) ==
    IF current > end_date
    THEN [tag |-> "dict", stats |-> category_stats, scanned |-> scanned]
    ELSE LET daily_stats == get_daily_stats(fs, current)
         IN IF daily_stats.tag # "dict"
            THEN [tag |-> daily_stats.tag, stats |-> category_stats,
                  scanned |-> Append(scanned, current)]
            ELSE category_totals_scan(fs,
                    category_stats_add(category_stats, daily_stats.value[1]),
                    current + 1, end_date, Append(scanned, current))

get_category_totals_ActiveDays(categories, fs, today, days_back) ==
    LET r == category_totals_scan(fs, category_stats_init(categories),
                                  today - days_back, today, <<>>)
    IN IF r.tag # "dict"
       THEN [tag |-> r.tag, value |-> None, scanned |-> r.scanned]
       ELSE [tag |-> "dict",
             value |-> Some([category \in DOMAIN r.stats |->
                        [r.stats[category] EXCEPT !.average_per_day =
                            IF r.stats[category].days_active > 0
                            THEN RatOver(r.stats[category].total_hours,
                                         r.stats[category].days_active)
                            ELSE @]]),
             scanned |-> r.scanned]

\* the whole method; `today` is the date of datetime.now() (the offset of the
\* local zone from UTC is not modelled).  288-294: the averages
get_category_totals(categories, fs, today, days_back) ==
    LET r == category_totals_scan(fs, category_stats_init(categories),
                                  today - days_back, today, <<>>)
    IN IF r.tag # "dict"
       THEN [tag |-> r.tag, value |-> None, scanned |-> r.scanned]
       ELSE [tag |-> "dict",
             value |-> Some([category \in DOMAIN r.stats |->
                        [r.stats[category] EXCEPT !.average_per_day =
                            IF Len(r.scanned) > 0
                            THEN RatOver(r.stats[category].total_hours, Len(r.scanned))
                            ELSE @]]),
             scanned |-> r.scanned]

\* ------------------------------ DailyStatsAnalyzer, stats_analyzer_daily.py
DaysPerWeek == 7

\* 17-30: the hours of every date of the window whose get_daily_stats is not
\* an empty dict; get_date_range (11-15) makes the window end today and start
\* days_back days earlier, both ends included
RECURSIVE daily_totals_scan(_, _, _, _, _)
daily_totals_scan(fs, daily_totals, current_date, end_date, scanned) ==
    IF current_date > end_date
    THEN [tag |-> "dict", value |-> Some(daily_totals), scanned |-> scanned]
    ELSE LET daily_stats == get_daily_stats(fs, current_date)
         IN IF daily_stats.tag # "dict"
            THEN [tag |-> daily_stats.tag, value |-> None,
                  scanned |-> Append(scanned, current_date)]
            ELSE daily_totals_scan(fs,
                    IF DOMAIN daily_stats.value[1] # {}
                    THEN (current_date :> daily_stats.value[1]) @@ daily_totals
                    ELSE daily_totals,
                    current_date + 1, end_date, Append(scanned, current_date))

get_daily_totals(fs, today, days_back) ==
    daily_totals_scan(fs, <<>>, today - days_back, today, <<>>)

\* daily_totals.get(date_str, {})
day_data_of(daily_totals, date) ==
    IF date \in DOMAIN daily_totals THEN daily_totals[date] ELSE <<>>

\* 52: sorted(day_data.items(), key=hours, reverse=True); which of two
\* categories with the same hours comes first is the dict's order, here a
\* fixed choice
RECURSIVE sorted_by_hours(_, _)
sorted_by_hours(day_data, categories) ==
    IF categories = {}
    THEN <<>>
    ELSE LET top == CHOOSE c \in categories :
                        \A d \in categories : ~RatLess(day_data[c], day_data[d])
         IN <<top>> \o sorted_by_hours(day_data, categories \ {top})

calendar_segments_OverLargest(day_data, day_total) ==
    IF RatLess(Zero, day_total)
    THEN LET order == sorted_by_hours(day_data, DOMAIN day_data)
             shown == SelectSeq(order, LAMBDA c : RatLess(Zero, day_data[c]))
         IN [i \in 1..Len(shown) |->
                [category |-> shown[i], hours |-> day_data[shown[i]],
                 percentage |-> RatTimes(RatDiv(day_data[shown[i]], day_data[shown[1]]),
                                         Percent)]]
    ELSE <<>>

\* 50-59: the segments of one day's progress bar
calendar_segments(day_data, day_total) ==
    IF RatLess(Zero, day_total)
    THEN LET order == sorted_by_hours(day_data, DOMAIN day_data)
             shown == SelectSeq(order, LAMBDA c : RatLess(Zero, day_data[c]))
         IN [i \in 1..Len(shown) |->
                [category |-> shown[i], hours |-> day_data[shown[i]],
                 percentage |-> RatTimes(RatDiv(day_data[shown[i]], day_total), Percent)]]
    ELSE <<>>

\* 61-68: one entry of the calendar (the ISO week number is left out)
calendar_entry(daily_totals, date) ==
    LET day_data == day_data_of(daily_totals, date)
        day_total == RatSum(DOMAIN day_data, day_data)
    IN [date |-> date, total_hours |-> day_total, categories |-> day_data,
        category_segments |-> calendar_segments(day_data, day_total),
        weekday |-> date % DaysPerWeek]

\* 36-72
get_productivity_calendar(fs, today, days_back) ==
    LET r == get_daily_totals(fs, today, days_back)
    IN IF r.tag # "dict"
       THEN [tag |-> r.tag, value |-> None, scanned |-> r.scanned]
       ELSE [tag |-> "list",
             value |-> Some([i \in 1..(days_back + 1) |->
                                calendar_entry(r.value[1], today - days_back + i - 1)]),
             scanned |-> r.scanned]

\* the default window of get_daily_totals and get_category_totals (365 days in
\* the code) and the window of the recent activity (30 days), scaled down with
\* RecentBack < WeekBack < YearBack kept; the cap of the streak (100 in the
\* code), scaled down as well
YearBack == 14
RecentBack == 3
StreakCap == 4

\* 74-93: for each weekday that has dates with data, the average hours of
\* every category over those of its dates that name the category
get_weekly_patterns(fs, today) ==
    LET r == get_daily_totals(fs, today, YearBack)
    IN IF r.tag # "dict"
       THEN [tag |-> r.tag, value |-> None, scanned |-> r.scanned]
       ELSE LET daily_totals == r.value[1]
                on(weekday, category) ==
                    {d \in DOMAIN daily_totals :
                        d % DaysPerWeek = weekday /\ category \in DOMAIN daily_totals[d]}
                named(weekday) ==
                    UNION {DOMAIN daily_totals[d] :
                            d \in {e \in DOMAIN daily_totals : e % DaysPerWeek = weekday}}
            IN [tag |-> "dict",
                value |-> Some([weekday \in 0..(DaysPerWeek - 1) |->
                            [category \in named(weekday) |->
                                RatOver(RatSum(on(weekday, category),
                                               [d \in on(weekday, category) |->
                                                    daily_totals[d][category]]),
                                        Cardinality(on(weekday, category)))]]),
                scanned |-> r.scanned]

\* 95-105: the hours of every category summed over the dates of a month
get_monthly_trends(fs, today) ==
    LET r == get_daily_totals(fs, today, YearBack)
    IN IF r.tag # "dict"
       THEN [tag |-> r.tag, value |-> None, scanned |-> r.scanned]
       ELSE LET daily_totals == r.value[1]
                months == {month_of(d) : d \in DOMAIN daily_totals}
                of(month, category) ==
                    {d \in DOMAIN daily_totals :
                        month_of(d) = month /\ category \in DOMAIN daily_totals[d]}
                named(month) ==
                    UNION {DOMAIN daily_totals[d] :
                            d \in {e \in DOMAIN daily_totals : month_of(e) = month}}
            IN [tag |-> "dict",
                value |-> Some([month \in months |->
                            [category \in named(month) |->
                                RatSum(of(month, category),
                                       [d \in of(month, category) |->
                                            daily_totals[d][category]])]]),
                scanned |-> r.scanned]

\* the dates that have a daily file (356-376 of tracker_daily.py)
available_dates(fs) == {d \in DOMAIN fs : fs[d] # None}

\* 163-175: the days with time counted backwards from today
RECURSIVE streak_scan(_, _, _, _)
streak_scan(fs, current_date, current_streak, scanned) ==
    LET daily_stats == get_daily_stats(fs, current_date)
        touched == Append(scanned, current_date)
    IN IF daily_stats.tag # "dict"
       THEN [tag |-> daily_stats.tag, streak |-> current_streak, scanned |-> touched]
       ELSE IF RatLess(Zero, RatSum(DOMAIN daily_stats.value[1], daily_stats.value[1]))
            THEN IF current_streak + 1 > StreakCap
                 THEN [tag |-> "int", streak |-> current_streak + 1, scanned |-> touched]
                 ELSE streak_scan(fs, current_date - 1, current_streak + 1, touched)
            ELSE [tag |-> "int", streak |-> current_streak, scanned |-> touched]

\* 156-178: the streak is looked for only when some daily file exists
current_streak(fs, today) ==
    IF available_dates(fs) # {}
    THEN streak_scan(fs, today, 0, <<>>)
    ELSE [tag |-> "int", streak |-> 0, scanned |-> <<>>]

\* 121: max(category_stats.items(), key=total_hours): the first category, in
\* the order of the configured list, that no other one exceeds
top_category(categories, category_stats) ==
    LET idx == CHOOSE i \in 1..Len(categories) :
                  /\ categories[i] \in DOMAIN category_stats
                  /\ \A j \in 1..Len(categories) :
                        categories[j] \in DOMAIN category_stats =>
                            /\ ~RatLess(category_stats[categories[i]].total_hours,
                                        category_stats[categories[j]].total_hours)
                            /\ (j < i => RatLess(category_stats[categories[j]].total_hours,
                                                 category_stats[categories[i]].total_hours))
    IN categories[idx]

\* the insights as the kind of each sentence and the quantity it reports (the
\* wording and the one-decimal formatting are left out)
insights_of(categories, category_stats, daily_totals, weekly_patterns, streak) ==
    LET total_hours == RatSum(DOMAIN category_stats,
                              [c \in DOMAIN category_stats |-> category_stats[c].total_hours])
        recent_days_with_data ==
            Cardinality({d \in DOMAIN daily_totals :
                            RatLess(Zero, RatSum(DOMAIN daily_totals[d], daily_totals[d]))})
        day_total(weekday) == RatSum(DOMAIN weekly_patterns[weekday], weekly_patterns[weekday])
        best_average == LET W == DOMAIN weekly_patterns
                        IN day_total(CHOOSE w \in W :
                                        \A v \in W : ~RatLess(day_total(w), day_total(v)))
        productive_categories ==
            {c \in DOMAIN category_stats \ {"wasted", "stop"} :
                RatLess(Zero, category_stats[c].total_hours)}
    IN (IF RatLess(Zero, total_hours)
        THEN <<[kind |-> "total", value |-> total_hours]>> ELSE <<>>)
       \o (IF DOMAIN category_stats # {}
           THEN <<[kind |-> "top", category |-> top_category(categories, category_stats),
                   value |-> category_stats[top_category(categories, category_stats)].total_hours]>>
           ELSE <<>>)
       \o (IF recent_days_with_data > 0
           THEN <<[kind |-> "recent", value |-> recent_days_with_data]>> ELSE <<>>)
       \o (IF RatLess(Zero, best_average)
           THEN <<[kind |-> "weekday", value |-> best_average]>> ELSE <<>>)
       \o (IF "wasted" \in DOMAIN category_stats
              /\ RatLess(Zero, category_stats["wasted"].total_hours)
           THEN <<[kind |-> "wasted", value |-> category_stats["wasted"].total_hours]>>
           ELSE <<>>)
       \o (IF productive_categories # {}
           THEN <<[kind |-> "consistent",
                   value |-> Rat(SumOver(productive_categories,
                                    [c \in productive_categories |->
                                        category_stats[c].days_active]),
                                 Cardinality(productive_categories))]>>
           ELSE <<>>)
       \o (IF streak > 0 THEN <<[kind |-> "streak", value |-> streak]>> ELSE <<>>)

\* 107-180; the first call that raises ends the method
get_productivity_insights(categories, fs, today) ==
    LET cs == get_category_totals(categories, fs, today, YearBack)
    IN IF cs.tag # "dict" THEN [tag |-> cs.tag, value |-> None, scanned |-> cs.scanned]
       ELSE
    LET dt == get_daily_totals(fs, today, RecentBack)
    IN IF dt.tag # "dict"
       THEN [tag |-> dt.tag, value |-> None, scanned |-> cs.scanned \o dt.scanned]
       ELSE
    LET wp == get_weekly_patterns(fs, today)
    IN IF wp.tag # "dict"
       THEN [tag |-> wp.tag, value |-> None,
             scanned |-> cs.scanned \o dt.scanned \o wp.scanned]
       ELSE
    LET st == current_streak(fs, today)
        scanned == cs.scanned \o dt.scanned \o wp.scanned \o st.scanned
    IN IF st.tag # "int"
       THEN [tag |-> st.tag, value |-> None, scanned |-> scanned]
       ELSE [tag |-> "list",
             value |-> Some(insights_of(categories, cs.value[1], dt.value[1],
                                        wp.value[1], st.streak)),
             scanned |-> scanned]

\* ------------------------------------------- the aggregations alone
\* the window the statistics window asks for (stats_gui_minimal.py 386)
WeekBack == 7

StatsDates == 0..WeekBack

DaysBack == {0, 1, WeekBack}

\* the totals of a day: one category for two hours; two categories; a
\* category whose only session had the same start and end
StatsTotals ==
    { ("programming" :> 2 * SecondsPerHour),
      ("programming" :> SecondsPerHour) @@ ("wasted" :> SecondsPerHour \div 2),
      ("wasted" :> 0) }

\* a record with these totals: one closed session per category, started at
\* the first clock reading of the date
RECURSIVE SessionsFor(_, _, _)
SessionsFor(date, totals, categories) ==
    IF categories = {}
    THEN <<>>
    ELSE LET c == CHOOSE x \in categories : TRUE
         IN <<[category |-> c, start |-> date * DayLen,
               end |-> date * DayLen + totals[c], duration |-> totals[c]]>>
            \o SessionsFor(date, totals, categories \ {c})

StatsRecord(date, totals) ==
    [json |-> "ok", date |-> date, sessions |-> SessionsFor(date, totals, DOMAIN totals),
     total_by_category |-> totals]

\* the stores with at most two daily files
StatsStores ==
    {[d \in StatsDates |-> None]}
    \cup {[d \in StatsDates |->
            IF d = x[1][1] THEN Some(StatsRecord(d, x[1][2]))
            ELSE IF d = x[2][1] THEN Some(StatsRecord(d, x[2][2]))
            ELSE None] :
          x \in (StatsDates \X StatsTotals) \X (StatsDates \X StatsTotals)}

\* a store read on the last date of StatsDates
InitStats ==
    /\ config \in InitConfigs
    /\ config_file = config
    /\ current_session = None
    /\ current_session_file = None
    /\ files \in StatsStores
    /\ dirs = {month_of(d) : d \in {e \in StatsDates : files[e] # None}}
    /\ data = default_data
    /\ data_file = None
    /\ backup_file = None
    /\ running = FALSE
    /\ update_threads = <<>>
    /\ now = WeekBack * DayLen
    /\ frame = IdleFrame
    /\ frame2 = IdleFrame
    /\ last = NoCall
    /\ seen = [during |-> FALSE, session |-> None, file |-> None,
               pc |-> "idle", duration |-> "none"]

\* every record a scan loads goes through _get_daily_file
RECURSIVE Touch(_, _)
Touch(W, scanned) ==
    IF scanned = <<>> THEN W ELSE Touch(get_daily_file(W, Head(scanned)), Tail(scanned))

\* an aggregation over a window, applied once to the store
ScanCall(op, days_back, r) ==
    /\ last.op = "none"
    /\ Assign(Touch(World, r.scanned))
    /\ last' = [op |-> op, category |-> "", ret |-> r.tag, current |-> current_session,
                days_back |-> days_back, value |-> r.value, scanned |-> r.scanned]
    /\ UNCHANGED <<frame, frame2, seen>>

GetCategoryTotals ==
    /\ frame.op = "idle"
    /\ \E days_back \in DaysBack :
            ScanCall("get_category_totals", days_back,
                     get_category_totals(config, files, get_date_str(now), days_back))

GetProductivityCalendar ==
    /\ frame.op = "idle"
    /\ \E days_back \in DaysBack :
            ScanCall("get_productivity_calendar", days_back,
                     get_productivity_calendar(files, get_date_str(now), days_back))

GetWeeklyPatterns ==
    /\ frame.op = "idle"
    /\ ScanCall("get_weekly_patterns", YearBack,
                get_weekly_patterns(files, get_date_str(now)))

GetMonthlyTrends ==
    /\ frame.op = "idle"
    /\ ScanCall("get_monthly_trends", YearBack,
                get_monthly_trends(files, get_date_str(now)))

GetProductivityInsights ==
    /\ frame.op = "idle"
    /\ ScanCall("get_productivity_insights", YearBack,
                get_productivity_insights(config, files, get_date_str(now)))

NextStats ==
    \/ GetCategoryTotals
    \/ GetWeeklyPatterns
    \/ GetMonthlyTrends
    \/ GetProductivityInsights
    \/ GetProductivityCalendar

SpecStats == InitStats /\ [][NextStats]_vars

\* ------------------------------------------- the streak search alone
\* the last date of the stores the streak is searched in
StreakToday == StreakCap + 3

\* a run of `run` days with a record, ending today; the day `hole` (if it is
\* a date of the run) has no record, or a record without time
StreakStore(run, hole, totals) ==
    [d \in 0..StreakToday |->
        IF d <= StreakToday - run THEN None
        ELSE IF d = hole THEN totals
        ELSE Some(StatsRecord(d, "programming" :> SecondsPerHour))]

StreakHoles == {-1, StreakToday, StreakToday - 1, StreakToday - StreakCap}

StreakStores ==
    {StreakStore(run, hole, totals) :
        run \in 0..(StreakToday + 1), hole \in StreakHoles,
        totals \in {None, Some(StatsRecord(0, "wasted" :> 0))}}

InitStreak ==
    /\ config \in InitConfigs
    /\ config_file = config
    /\ current_session = None
    /\ current_session_file = None
    /\ files \in StreakStores
    /\ dirs = {month_of(d) : d \in available_dates(files)}
    /\ data = default_data
    /\ data_file = None
    /\ backup_file = None
    /\ running = FALSE
    /\ update_threads = <<>>
    /\ now = StreakToday * DayLen
    /\ frame = IdleFrame
    /\ frame2 = IdleFrame
    /\ last = NoCall
    /\ seen = [during |-> FALSE, session |-> None, file |-> None,
               pc |-> "idle", duration |-> "none"]

\* lines 155-178 of get_productivity_insights, applied once to the store
CurrentStreak ==
    /\ frame.op = "idle"
    /\ LET r == current_streak(files, get_date_str(now))
       IN ScanCall("current_streak", StreakCap,
                   [tag |-> r.tag, value |-> r.streak, scanned |-> r.scanned])

NextStreak ==
    \/ CurrentStreak

SpecStreak == InitStreak /\ [][NextStreak]_vars

\* ------------------------------ sessions and aggregations in any order
\* a reader called on the store the sessions have written; `last` keeps the
\* operation and the tag of its result
Aggregate(op, r, scanned) ==
    /\ Assign(Touch(World, scanned))
    /\ last' = [op |-> op, category |-> "", ret |-> r.tag, current |-> current_session]
    /\ UNCHANGED <<frame, frame2, seen>>

CallGetDailyStats ==
    /\ frame.op = "idle"
    /\ \E date \in Dates :
            Aggregate("get_daily_stats", get_daily_stats(files, date), <<date>>)

CallGetDailySessions ==
    /\ frame.op = "idle"
    /\ \E date \in Dates :
            Aggregate("get_daily_sessions", get_daily_sessions(files, date), <<date>>)

CallGetCategoryTotals ==
    /\ frame.op = "idle"
    /\ \E days_back \in DaysBack :
            LET r == get_category_totals(config, files, get_date_str(now), days_back)
            IN Aggregate("get_category_totals", r, r.scanned)

CallGetDailyTotals ==
    /\ frame.op = "idle"
    /\ \E days_back \in DaysBack :
            LET r == get_daily_totals(files, get_date_str(now), days_back)
            IN Aggregate("get_daily_totals", r, r.scanned)

CallGetProductivityCalendar ==
    /\ frame.op = "idle"
    /\ \E days_back \in DaysBack :
            LET r == get_productivity_calendar(files, get_date_str(now), days_back)
            IN Aggregate("get_productivity_calendar", r, r.scanned)

CallGetWeeklyPatterns ==
    /\ frame.op = "idle"
    /\ LET r == get_weekly_patterns(files, get_date_str(now))
       IN Aggregate("get_weekly_patterns", r, r.scanned)

CallGetMonthlyTrends ==
    /\ frame.op = "idle"
    /\ LET r == get_monthly_trends(files, get_date_str(now))
       IN Aggregate("get_monthly_trends", r, r.scanned)

CallGetProductivityInsights ==
    /\ frame.op = "idle"
    /\ LET r == get_productivity_insights(config, files, get_date_str(now))
       IN Aggregate("get_productivity_insights", r, r.scanned)

NextAggregate ==
    \/ \E c \in Names : StartSession(c)
    \/ StopSession
    \/ Tick
    \/ CallGetDailyStats
    \/ CallGetDailySessions
    \/ CallGetCategoryTotals
    \/ CallGetDailyTotals
    \/ CallGetProductivityCalendar
    \/ CallGetWeeklyPatterns
    \/ CallGetMonthlyTrends
    \/ CallGetProductivityInsights

SpecAggregate == Init /\ [][NextAggregate]_vars

\* ------------- StatusDisplay / MinimalOverlay: start, stop, _update_loop
\* status.py 217-263 and overlay.py 255-292.  A thread of _update_loop is
\* [pc, stopped]: at the test of `while self.running` ("check"), inside the
\* iteration ("body": the refresh, then the sleep) or returned ("exited");
\* `stopped` records that stop() was called after the thread was spawned.
\* What the refresh draws is not modelled, nor the window's main loop.
MaxThreads == 3

Spawned == 1..Len(update_threads)

\* start, 227-250 (266-284): nothing when running is set; else the flag is set
\* and one thread is spawned
display_start ==
    IF running
    THEN /\ UNCHANGED display
         /\ last' = [op |-> "display_start", category |-> "", ret |-> "ignored",
                     current |-> current_session]
    ELSE /\ Len(update_threads) < MaxThreads
         /\ running' = TRUE
         /\ update_threads' = Append(update_threads, [pc |-> "check", stopped |-> FALSE])
         /\ last' = [op |-> "display_start", category |-> "", ret |-> "started",
                     current |-> current_session]

DisplayStart ==
    /\ frame.op = "idle"
    /\ display_start
    /\ UNCHANGED <<config, config_file, current_session, current_session_file, files, dirs,
                   flat, now, frame, frame2, seen>>

\* stop, 255-263 (286-292): the flag is cleared
DisplayStop ==
    /\ frame.op = "idle"
    /\ running' = FALSE
    /\ update_threads' = [t \in Spawned |-> [update_threads[t] EXCEPT !.stopped = TRUE]]
    /\ last' = [op |-> "display_stop", category |-> "", ret |-> "None",
                current |-> current_session]
    /\ UNCHANGED <<config, config_file, current_session, current_session_file, files, dirs,
                   flat, now, frame, frame2, seen>>

\* `while self.running:` (219, 257)
loop_check(t) ==
    [update_threads EXCEPT ![t].pc = IF running THEN "body" ELSE "exited"]

LoopCheck(t) ==
    /\ t \in Spawned
    /\ update_threads[t].pc = "check"
    /\ update_threads' = loop_check(t)
    /\ UNCHANGED <<config, config_file, current_session, current_session_file, files, dirs,
                   flat, running, now, frame, frame2, last, seen>>

\* the iteration, 220-225 (258-263): the refresh and the sleep, or the
\* handler of an exception and its shorter sleep; then the test again
LoopBody(t) ==
    /\ t \in Spawned
    /\ update_threads[t].pc = "body"
    /\ update_threads' = [update_threads EXCEPT ![t].pc = "check"]
    /\ UNCHANGED <<config, config_file, current_session, current_session_file, files, dirs,
                   flat, running, now, frame, frame2, last, seen>>

NextDisplay ==
    \/ DisplayStart
    \/ DisplayStop
    \/ \E t \in 1..MaxThreads : LoopCheck(t)
    \/ \E t \in 1..MaxThreads : LoopBody(t)

SpecDisplay == Init /\ [][NextDisplay]_vars

\* every spawned thread is scheduled again and again, and its sleep returns
SpecDisplayFair ==
    /\ SpecDisplay
    /\ \A t \in 1..MaxThreads : WF_vars(LoopCheck(t)) /\ WF_vars(LoopBody(t))

\* ------------------------------------ tracker.py, the flat-file TimeTracker
\* what json.dump(self.data) leaves in data.json, and json.load of it
flat_dump(d) ==
    Some([json |-> "ok", categories |-> Some(d.categories), sessions |-> Some(d.sessions),
          current |-> d.current])

\* _save_data, 26-29
flat_save_data(W) == [W EXCEPT !.data_file = flat_dump(W.data)]

\* _load_data, 11-24: the content of the file when it exists and parses, else
\* the default structure
flat_load_data(W) ==
    IF W.data_file # None /\ W.data_file[1].json = "ok"
    THEN [W EXCEPT !.data = [sessions |-> W.data_file[1].sessions[1],
                             categories |-> W.data_file[1].categories[1],
                             current |-> W.data_file[1].current]]
    ELSE [W EXCEPT !.data = default_data]

\* add_category, 39-45
flat_add_category(W, category) ==
    IF ~Contains(W.data.categories, category)
    THEN [w |-> flat_save_data([W EXCEPT !.data.categories = Append(@, category)]),
          ret |-> RetBool(TRUE)]
    ELSE [w |-> W, ret |-> RetBool(FALSE)]

\* remove_category, 47-53
flat_remove_category(W, category) ==
    IF Contains(W.data.categories, category) /\ Len(W.data.categories) > 1
    THEN [w |-> flat_save_data([W EXCEPT !.data.categories = ListRemove(@, category)]),
          ret |-> RetBool(TRUE)]
    ELSE [w |-> W, ret |-> RetBool(FALSE)]

\* stop_session, 83-102: the completed session has no "duration"
flat_stop_session(W) ==
    IF W.data.current = None
    THEN [w |-> W, ret |-> RetNone]
    ELSE LET current == W.data.current[1]
             completed_session == [category |-> current.category, start |-> current.start,
                                   end |-> W.now]
         IN [w |-> flat_save_data([W EXCEPT !.data.sessions = Append(@, completed_session),
                                            !.data.current = None]),
             ret |-> RetSession(completed_session)]

\* start_session, 59-81
flat_start_session(W, category) ==
    IF ~Contains(W.data.categories, category)
    THEN [w |-> W, ret |-> RetBool(FALSE)]
    ELSE LET W1 == IF W.data.current # None THEN flat_stop_session(W).w ELSE W
         IN IF category = "stop"
            THEN [w |-> flat_save_data([W1 EXCEPT !.data.current = None]),
                  ret |-> RetBool(TRUE)]
            ELSE [w |-> flat_save_data([W1 EXCEPT !.data.current =
                                            Some([category |-> category, start |-> W1.now])]),
                  ret |-> RetBool(TRUE)]

flat_call(op, category, W) ==
    CASE op = "start_session" -> flat_start_session(W, category)
      [] op = "stop_session" -> flat_stop_session(W)
      [] op = "add_category" -> flat_add_category(W, category)
      [] op = "remove_category" -> flat_remove_category(W, category)

\* ----------------------- the compatibility wrapper's get_sessions, 399-412
\* list.sort(key=start): stable, so equal starts keep their order
RECURSIVE sort_by_start(_)
sort_by_start(sessions) ==
    IF sessions = <<>>
    THEN <<>>
    ELSE LET first == CHOOSE i \in 1..Len(sessions) :
                        /\ \A j \in 1..Len(sessions) : sessions[i].start <= sessions[j].start
                        /\ \A j \in 1..(i - 1) : sessions[j].start # sessions[i].start
         IN <<sessions[first]>>
            \o sort_by_start(SubSeq(sessions, 1, first - 1)
                             \o SubSeq(sessions, first + 1, Len(sessions)))

\* the sessions of the available dates, in the order of the dates
RECURSIVE sessions_from(_, _)
sessions_from(fs, date) ==
    IF date \notin DOMAIN fs
    THEN <<>>
    ELSE (IF fs[date] # None THEN load_daily_data(fs, date).sessions ELSE <<>>)
         \o sessions_from(fs, date + 1)

get_sessions(fs) == sort_by_start(sessions_from(fs, 0))

\* ------------------------- the two trackers driven by the same calls
\* each call is made on the flat-file tracker and on the wrapper at the same
\* clock reading, each on its own storage (the wrapper's data_file argument
\* names no file); `last` keeps both results
CompatCall(op, category) ==
    LET rf == flat_call(op, category, World)
        rd == Run(rf.w, NewFrame(op, category), "return")
    IN /\ Assign(rd.w)
       /\ last' = [op |-> op, category |-> category, ret |-> rd.f.ret.tag,
                   current |-> current_session, session |-> rd.f.ret.session,
                   flat_ret |-> rf.ret]
       /\ UNCHANGED <<frame, frame2, seen>>

\* the flat file keeps at most MaxSessions closed sessions as well
FlatRoom == data.current = None \/ Len(data.sessions) < MaxSessions

CompatStartSession(category) ==
    /\ frame.op = "idle"
    /\ Room
    /\ FlatRoom
    /\ CompatCall("start_session", category)

CompatStopSession ==
    /\ frame.op = "idle"
    /\ Room
    /\ FlatRoom
    /\ CompatCall("stop_session", "")

CompatAddCategory(category) ==
    /\ frame.op = "idle"
    /\ CompatCall("add_category", category)

CompatRemoveCategory(category) ==
    /\ frame.op = "idle"
    /\ CompatCall("remove_category", category)

\* both processes end and both trackers are constructed again
CompatRestart ==
    /\ frame.op = "idle"
    /\ Assign(load_current_session(load_config(flat_load_data(World))))
    /\ last' = [op |-> "restart", category |-> "", ret |-> "None",
                current |-> current_session, session |-> None, flat_ret |-> RetNone]
    /\ UNCHANGED <<frame, frame2, seen>>

\* the categories sessions are started with, and those added and removed
CompatNames == {"programming", "stop", "testing"}
CompatEdits == {"programming", "testing"}

NextCompat ==
    \/ \E c \in CompatNames : CompatStartSession(c)
    \/ CompatStopSession
    \/ \E c \in CompatEdits : CompatAddCategory(c)
    \/ \E c \in CompatEdits : CompatRemoveCategory(c)
    \/ CompatRestart
    \/ Tick

\* empty storage: both constructors write nothing and hold the default list
InitCompat ==
    /\ Init
    /\ config = DefaultCategories

SpecCompat == InitCompat /\ [][NextCompat]_vars

\* ------------------------------------ two threads writing at once
\* launch.py 49-74, status.py 142-153: the picker thread calls start_session
\* while the hotkey handler (the keyboard listener's thread) calls
\* stop_session, on the same tracker and without a lock.  `frame` is the
\* call of the picker thread, `frame2` the call of the hotkey handler.
\* the store keeps at most MaxSessions closed sessions, give or take those of
\* the calls in progress: no call is begun beyond that
WritersRoom == NumSessions < MaxSessions

BeginStart1 ==
    /\ WritersRoom
    /\ BeginCall("start_session", "programming")

BeginStop1 ==
    /\ WritersRoom
    /\ BeginCall("stop_session", "")

BeginStop2 ==
    /\ frame2.op = "idle"
    /\ WritersRoom
    /\ frame2' = [NewFrame("stop_session", "") EXCEPT !.at_call = current_session]
    /\ UNCHANGED <<config, config_file, current_session, current_session_file, files, dirs,
                   flat, display, now, frame, last, seen>>

\* the hotkey handler executes its next statement
StepCall2 ==
    /\ frame2.op # "idle"
    /\ LET r == Step(World, frame2)
       IN /\ Assign(r.w)
          /\ frame2' = IF r.f.pc = "done" THEN IdleFrame ELSE r.f
    /\ UNCHANGED <<frame, last, seen>>

\* time passes between two calls
TickIdle ==
    /\ frame2.op = "idle"
    /\ Tick

NextWriters ==
    \/ BeginStart1
    \/ BeginStop1
    \/ StepCall
    \/ BeginStop2
    \/ StepCall2
    \/ TickIdle

SpecWriters == Init /\ [][NextWriters]_vars

\* ------------------ calls whose write of current_session.json or
\* config.json fails.  open(path, 'w') raises OSError (66-73, 43-46) and the
\* file stays as it was; a failure that leaves a partial file is not
\* modelled here.  Nothing catches the error: the call ends with it.
write_raises(W, F) == Return(W, F, RetError("OSError"))

\* the label of the statement that writes the file
WriteLabel(op) ==
    CASE op = "start_session" -> "start_save"
      [] op = "add_category" -> "add_save"
      [] op = "remove_category" -> "remove_save"

\* the call runs up to its write, which raises
FailingWrite(op, category) ==
    LET r1 == Run(World, NewFrame(op, category), WriteLabel(op))
    IN /\ r1.f.pc = WriteLabel(op)
       /\ LET r2 == write_raises(r1.w, r1.f)
          IN /\ Assign(r2.w)
             /\ last' = [op |-> op, category |-> category, ret |-> r2.f.ret.tag,
                         current |-> current_session]
       /\ UNCHANGED <<frame, frame2, seen>>

StartSessionWriteFails(category) ==
    /\ frame.op = "idle"
    /\ Room
    /\ FailingWrite("start_session", category)

AddCategoryWriteFails(category) ==
    /\ frame.op = "idle"
    /\ FailingWrite("add_category", category)

RemoveCategoryWriteFails(category) ==
    /\ frame.op = "idle"
    /\ FailingWrite("remove_category", category)

\* the categories added and removed
EditNames == {"wasted", "testing"}

NextWriteFault ==
    \/ \E c \in Names : StartSession(c)
    \/ StopSession
    \/ \E c \in EditNames : AddCategory(c)
    \/ \E c \in EditNames : RemoveCategory(c)
    \/ Tick
    \/ \E c \in Names : StartSessionWriteFails(c)
    \/ \E c \in EditNames : AddCategoryWriteFails(c)
    \/ \E c \in EditNames : RemoveCategoryWriteFails(c)

SpecWriteFault == InitCategories /\ [][NextWriteFault]_vars

\* ------------- the category list edited between sessions and the totals
\* read at any moment
NextTotals ==
    \/ \E c \in Names : StartSessionC(c)
    \/ StopSessionC
    \/ \E c \in Names : AddCategoryC(c)
    \/ \E c \in Names : RemoveCategoryC(c)
    \/ Tick
    \/ GetCategoryTotals

SpecTotals == InitCategories /\ [][NextTotals]_vars

\* ================================================================ claims
\* what a claim expects stop_session to store for the open session `cur`
\* closed at clock reading t
Closed(cur, t) ==
    [category |-> cur.category, start |-> cur.start, end |-> t, duration |-> t - cur.start]

AllSessions == {<<d, i>> \in Dates \X (1..MaxSessions + 1) : i <= Len(Record(d).sessions)}

RECURSIVE SumDuration(_, _)
SumDuration(sessions, c) ==
    IF sessions = <<>> THEN 0
    ELSE (IF Head(sessions).category = c THEN Head(sessions).duration ELSE 0)
         + SumDuration(Tail(sessions), c)

CategoriesOf(sessions) == {sessions[i].category : i \in 1..Len(sessions)}

CountOf(sessions, c) == Cardinality({i \in 1..Len(sessions) : sessions[i].category = c})

\* C1: at most one session is open: the engine holds at most one current session,
\* current_session.json exists exactly when the engine holds one and has the same
\* content, a current session has no end, and every session in a daily record has one.
C1_OneOpenSession ==
    /\ Len(current_session) <= 1
    /\ current_session_file = current_session
    /\ current_session # None => DOMAIN current_session[1] = {"category", "start"}
    /\ \A x \in AllSessions : "end" \in DOMAIN Record(x[1]).sessions[x[2]]

C1_Witness ==
    /\ last.op = "start_session"
    /\ last.current # None
    /\ current_session # None
    /\ current_session_file # None
    /\ NumSessions >= 1

\* C2: in every daily record, total_by_category has exactly the categories of the
\* record's sessions as keys, and each value is the sum of the stored durations of
\* the sessions of that category.
C2_TotalsAreSums ==
    \A d \in Dates :
        files[d] # None =>
            LET rec == files[d][1]
            IN /\ DOMAIN rec.total_by_category = CategoriesOf(rec.sessions)
               /\ \A c \in CategoriesOf(rec.sessions) :
                      rec.total_by_category[c] = SumDuration(rec.sessions, c)

C2_Witness ==
    \E d \in Dates, c \in Names :
        /\ files[d] # None
        /\ CountOf(files[d][1].sessions, c) >= 2
        /\ files[d][1].total_by_category[c] >= 2
        /\ ~Contains(config, c)

\* C3: start_session(c2), c2 registered and not "stop", on an engine that holds an
\* open session (c1, T0), called at clock reading T1: returns True, appends the
\* closed session (c1, T0, T1, T1 - T0) to the record of T0's date, changes no other
\* daily file, and the current session becomes an open session of category c2.
C3_Switch ==
    [][(/\ last'.op = "start_session"
        /\ current_session # None
        /\ Contains(config, last'.category)
        /\ last'.category # "stop")
       => LET cur == current_session[1]
              d0 == get_date_str(cur.start)
          IN /\ last'.ret = "True"
             /\ load_daily_data(files', d0).sessions
                    = Append(Record(d0).sessions, Closed(cur, now))
             /\ \A d \in Dates \ {d0} : files'[d] = files[d]
             /\ current_session' # None
             /\ current_session'[1].category = last'.category
             /\ "end" \notin DOMAIN current_session'[1]]_vars

C3_Witness ==
    /\ last.op = "start_session"
    /\ last.ret = "True"
    /\ last.current # None
    /\ current_session # None
    /\ current_session[1].category # last.current[1].category
    /\ current_session[1].start > last.current[1].start
    /\ \E x \in AllSessions :
           Record(x[1]).sessions[x[2]].category = last.current[1].category

\* C4: with "stop" in the category list, start_session("stop") returns True and
\* leaves the engine idle with no current_session.json; if a session of category c
\* was open it is closed and recorded, if none was open no daily file changes.
C4_StartStop ==
    [][(/\ last'.op = "start_session"
        /\ last'.category = "stop"
        /\ Contains(config, "stop"))
       => /\ last'.ret = "True"
          /\ current_session' = None
          /\ current_session_file' = None
          /\ IF current_session = None
             THEN files' = files
             ELSE LET cur == current_session[1]
                      d0 == get_date_str(cur.start)
                  IN /\ load_daily_data(files', d0).sessions
                            = Append(Record(d0).sessions, Closed(cur, now))
                     /\ \A d \in Dates \ {d0} : files'[d] = files[d]]_vars

C4_Witness ==
    /\ last.op = "start_session"
    /\ last.category = "stop"
    /\ last.ret = "True"
    /\ last.current # None
    /\ current_session = None
    /\ NumSessions >= 1

\* C5: stop_session on an idle engine returns None and changes nothing: no current
\* session, no current_session.json, every daily file and the set of available
\* dates as before.
C5_StopIdle ==
    [][(last'.op = "stop_session" /\ current_session = None)
       => /\ last'.ret = "None"
          /\ current_session' = None
          /\ current_session_file' = current_session_file
          /\ current_session_file' = None
          /\ files' = files
          /\ list_available_dates' = list_available_dates
          /\ UNCHANGED <<config, config_file>>]_vars

C5_Witness ==
    /\ last.op = "stop_session"
    /\ last.ret = "None"
    /\ last.current = None
    /\ NumSessions >= 1

\* C6: start_session(category) with a category that is not in the list returns
\* False and changes nothing: an open session stays open, no daily file is
\* written, current_session.json is untouched.
C6_UnknownCategory ==
    [][(last'.op = "start_session" /\ ~Contains(config, last'.category))
       => /\ last'.ret = "False"
          /\ UNCHANGED <<config, config_file, current_session, current_session_file,
                         files>>]_vars

C6_Witness ==
    /\ last.op = "start_session"
    /\ last.ret = "False"
    /\ ~Contains(config, last.category)
    /\ last.current # None
    /\ current_session = last.current

\* C7: every closed session stored in a daily record has end >= start and a
\* stored duration >= 0.
C7_EndAfterStart ==
    \A x \in AllSessions :
        LET s == Record(x[1]).sessions[x[2]]
        IN s.end >= s.start /\ s.duration >= 0

\* C8: "stop" never accrues time: no daily record holds a session of category
\* "stop", no total_by_category has a "stop" key, and the current session never
\* has category "stop".
C8_StopNeverAccrues ==
    /\ \A x \in AllSessions : Record(x[1]).sessions[x[2]].category # "stop"
    /\ \A d \in Dates : "stop" \notin DOMAIN Record(d).total_by_category
    /\ current_session # None => current_session[1].category # "stop"
    /\ current_session_file # None => current_session_file[1].category # "stop"

C8_Witness ==
    /\ Contains(config, "stop")
    /\ config # DefaultCategories
    /\ current_session = None
    /\ NumSessions >= 2

\* C9: the current session (in memory and current_session.json) is cleared
\* only after the daily record holding the closed session has been written; when
\* that write fails, in stop_session or in the stop that start_session performs,
\* the engine still holds the same open session and current_session.json is
\* still there.
C9_ClearAfterWrite ==
    [][/\ last'.ret = "OSError"
          => /\ current_session # None
             /\ current_session' = current_session
             /\ current_session_file' = current_session_file
             /\ current_session_file' # None
       /\ (current_session # None /\ current_session' # current_session)
          => LET cur == current_session[1]
                 d0 == get_date_str(cur.start)
             IN load_daily_data(files', d0).sessions
                    = Append(Record(d0).sessions, Closed(cur, now))]_vars

C9_Witness ==
    /\ last.op = "start_session"
    /\ last.ret = "OSError"
    /\ last.current # None
    /\ current_session = last.current
    /\ current_session_file = last.current
    /\ \E d \in Dates : files[d] # None /\ files[d][1].json = "bad"

\* C10: while start_session(c2) runs on an engine that holds an open session
\* (c2 registered, not "stop"), a reader of get_current_session or of
\* current_session.json never finds the engine idle.
C10_NoIdleGap ==
    seen.during => (seen.session # None /\ seen.file # None)

\* C11: a get_current_duration call of the display thread that runs while
\* another thread is inside start_session or stop_session completes without an
\* error: it returns None or a duration, it never raises.
C11_ReadsNeverFail ==
    seen.duration \in {"none", "None", "float"}

\* C12: discard on load.  When a DailyTracker is constructed on a directory
\* whose current_session.json holds a session without "end", the new engine is
\* idle, current_session.json is gone, and every daily file is as it was.
C12_DiscardOnLoad ==
    (/\ last.op = "restart"
     /\ last.file # None
     /\ "end" \notin DOMAIN last.file[1])
    => /\ current_session = None
       /\ current_session_file = None
       /\ files = last.files

\* a restart with a session in progress, on a store that already holds a
\* closed session: the interval in progress is in no daily file
C12_Witness ==
    /\ last.op = "restart"
    /\ last.file # None
    /\ current_session = None
    /\ NumSessions > 0
    /\ \A p \in AllSessions : Record(p[1]).sessions[p[2]].start # last.file[1].start

\* C13: the current session survives a restart.  When the process restarts with
\* a session open, the new engine's current session is that session (same
\* category, same start).
C13_CurrentSurvivesRestart ==
    (last.op = "restart" /\ last.current # None) => current_session = last.current

\* C14: a write that fails during migrate_from_old_format reaches the caller
\* as an error: the call does not return a normal value.
C14_WriteFailurePropagates ==
    (last.op = "migrate" /\ last.error = "OSError") => last.ret = "OSError"

\* C18: the category list is never empty.
C18_CategoriesNeverEmpty ==
    Len(config) >= 1

\* the seconds of the legacy sessions: end - start over the closed ones
LegacyTracked(old_data_file) ==
    LET sessions == old_data_file[1].sessions[1]
        closed == SelectSeq(sessions,
                      LAMBDA x : "start" \in DOMAIN x /\ "end" \in DOMAIN x)
    IN SumSeq([i \in 1..Len(closed) |-> closed[i].end - closed[i].start])

StoredDurations ==
    SumOver(Dates, [d \in Dates |->
        SumSeq([i \in 1..Len(Record(d).sessions) |-> Record(d).sessions[i].duration])])

\* C19: an import into an empty store conserves the tracked time.  After
\* migrate_from_old_format returned True on a store without daily files, the
\* seconds of the legacy sessions equal the stored durations of all daily
\* files, and equal the sum of all their total_by_category values.
C19_ImportConservesTime ==
    (last.op = "migrate" /\ last.ret = "True" /\ last.fresh)
    => /\ LegacyTracked(last.legacy) = StoredDurations
       /\ LegacyTracked(last.legacy) = StoredTotals(files)

\* an import of two sessions with time on them, into an empty store
C19_Witness ==
    /\ last.op = "migrate"
    /\ last.ret = "True"
    /\ last.fresh
    /\ Len(last.legacy[1].sessions[1]) = 2
    /\ LegacyTracked(last.legacy) = MaxTime
    /\ StoredTotals(files) = MaxTime

\* the sessions of a legacy file that belong to date d, as the import stores them
Imported(old_data_file, d) ==
    IF old_data_file[1].sessions = None
    THEN <<>>
    ELSE sessions_of_date(migrated_sessions(old_data_file[1].sessions[1]), d)

\* C20: the import appends.  In every successful import, the daily file of
\* each date holds afterwards the sessions it held before followed by the
\* imported sessions of that date.
C20_ImportAppends ==
    [][(last'.op = "migrate" /\ last'.ret = "True")
       => \A d \in Dates :
            load_daily_data(files', d).sessions
                = load_daily_data(files, d).sessions \o Imported(last'.legacy, d)]_vars

\* C15: reading the record of a date never fails.  get_daily_stats and
\* get_daily_sessions return a value (never raise), and the value is empty
\* when the date's file is absent, does not parse, or parses to something
\* that is not a record.
C15_LoadNeverFails ==
    last.op \in {"get_daily_stats", "get_daily_sessions"}
    => /\ last.ret \in {"dict", "list"}
       /\ (files[last.date] = None \/ files[last.date][1].json # "ok")
            => last.value \in {Some(EmptyTotals), Some(<<>>)}

\* C16: add_category(x) returns True and appends x at the end of the list
\* when x is not in it; when x is in it (as after a first add_category(x)) it
\* returns False and the list stays as it is.  The match is exact.
C16_AddCategory ==
    [][last'.op = "add_category"
       => IF Contains(config, last'.category)
          THEN last'.ret = "False" /\ config' = config /\ config_file' = config_file
          ELSE last'.ret = "True" /\ config' = Append(config, last'.category)
               /\ config_file' = config']_vars

\* a refused add_category of a name that an earlier call appended at the end,
\* with the same name in another case in the list as well
C16_Witness ==
    /\ last.op = "add_category"
    /\ last.ret = "False"
    /\ last.category = "testing"
    /\ config[Len(config)] = "testing"
    /\ Contains(config, "Testing")

\* C17: remove_category(name) returns False and leaves the list as it is when
\* name is not in it or when the list has one entry; otherwise it returns True
\* and the list is the old one without name, the others in their order.
C17_RemoveCategory ==
    [][last'.op = "remove_category"
       => IF ~Contains(config, last'.category) \/ Len(config) = 1
          THEN last'.ret = "False" /\ config' = config /\ config_file' = config_file
          ELSE /\ last'.ret = "True"
               /\ config' = SelectSeq(config, LAMBDA y : y # last'.category)
               /\ config_file' = config']_vars

\* remove_category("stop") refused because "stop" is the only category left
C17_Witness ==
    /\ last.op = "remove_category"
    /\ last.ret = "False"
    /\ last.category = "stop"
    /\ config = <<"stop">>

\* C21: the legacy current session.  In every successful import, a legacy
\* file with a current session makes that session the engine's current
\* session and the content of current_session.json; a legacy file without
\* one leaves both as they were.
C21_ImportCurrent ==
    [][(last'.op = "migrate" /\ last'.ret = "True")
       => IF last'.legacy[1].current # None
          THEN /\ current_session' = last'.legacy[1].current
               /\ current_session_file' = last'.legacy[1].current
          ELSE /\ current_session' = current_session
               /\ current_session_file' = current_session_file]_vars

\* an import that carried a current session over
C21_Witness ==
    /\ last.op = "migrate"
    /\ last.ret = "True"
    /\ last.legacy[1].current # None
    /\ current_session = last.legacy[1].current
    /\ current_session_file = current_session
    /\ last.current = None

\* C22: a session is stored under its start date.  When stop_session closes a
\* session that started on an earlier date than the one the clock reads, the
\* closed session is appended to the record of the start date with its full
\* duration, that record's total of the category grows by the full duration,
\* and the file of the later date is as it was.
C22_StoredUnderStartDate ==
    [][(/\ last'.op = "stop_session"
        /\ current_session # None
        /\ get_date_str(current_session[1].start) < get_date_str(now))
       => LET cur == current_session[1]
              D == get_date_str(cur.start)
              before == load_daily_data(files, D)
              after == load_daily_data(files', D)
              was == IF cur.category \in DOMAIN before.total_by_category
                     THEN before.total_by_category[cur.category] ELSE 0
          IN /\ after.sessions = Append(before.sessions, Closed(cur, now))
             /\ after.total_by_category[cur.category] = was + (now - cur.start)
             /\ files'[get_date_str(now)] = files[get_date_str(now)]]_vars

\* a session closed on the date after its start date, stored under the start
\* date while the later date has no file
C22_Witness ==
    /\ last.op = "stop_session"
    /\ last.ret = "session"
    /\ last.current # None
    /\ get_date_str(last.current[1].start) < get_date_str(now)
    /\ files[get_date_str(now)] = None
    /\ \E i \in 1..Len(Record(get_date_str(last.current[1].start)).sessions) :
            Record(get_date_str(last.current[1].start)).sessions[i]
                = Closed(last.current[1], now)

\* C30: closed sessions stay.  In every step, each session a daily file holds
\* is still in that file afterwards, at the same place and with the same
\* category, start, end and duration.
C30_SessionsImmutable ==
    [][\A d \in Dates :
          LET before == load_daily_data(files, d).sessions
              after == load_daily_data(files', d).sessions
          IN /\ Len(after) >= Len(before)
             /\ \A i \in 1..Len(before) : after[i] = before[i]]_vars

\* the hours of category c on date d, as get_daily_stats reports them (0 when
\* the date has no file or the category no total)
HoursOn(d, c) ==
    LET totals == load_daily_data(files, d).total_by_category
    IN IF c \in DOMAIN totals THEN Rat(totals[c], SecondsPerHour) ELSE Zero

\* the dates of the window of days_back, read today
Window(days_back) == (get_date_str(now) - days_back)..get_date_str(now)

\* C23: get_category_totals(days_back) loads the days_back + 1 dates from
\* today - days_back to today, one after the other; it reports the configured
\* categories other than "stop", and for each of them total_hours is the sum
\* of the window's hours, average_per_day times the number of dates is
\* total_hours, days_active counts the dates with hours > 0, and
\* max_day_hours is the largest hours of a date of the window.
C23_CategoryTotals ==
    (last.op = "get_category_totals" /\ last.ret = "dict")
    => LET W == Window(last.days_back)
           N == last.days_back + 1
           stats == last.value[1]
       IN /\ last.scanned = [i \in 1..N |-> get_date_str(now) - last.days_back + i - 1]
          /\ DOMAIN stats = {config[i] : i \in 1..Len(config)} \ {"stop"}
          /\ \A c \in DOMAIN stats :
                /\ stats[c].total_hours = RatSum(W, [d \in W |-> HoursOn(d, c)])
                /\ RatTimes(stats[c].average_per_day, N) = stats[c].total_hours
                /\ stats[c].days_active
                        = Cardinality({d \in W : RatLess(Zero, HoursOn(d, c))})
                /\ \A d \in W : ~RatLess(stats[c].max_day_hours, HoursOn(d, c))
                /\ \E d \in W : stats[c].max_day_hours = HoursOn(d, c)

\* a week's totals with a category active on two dates of the window
C23_Witness ==
    /\ last.op = "get_category_totals"
    /\ last.ret = "dict"
    /\ last.days_back = WeekBack
    /\ "programming" \in DOMAIN last.value[1]
    /\ last.value[1]["programming"].days_active = 2
    /\ last.value[1]["programming"].max_day_hours = Rat(2, 1)
    /\ last.value[1]["programming"].total_hours = Rat(3, 1)

\* Scenario C: a call get_category_totals(7) that reports a category active
\* on exactly one date of the window, for 2 hours
ScenarioC(c) ==
    /\ last.op = "get_category_totals"
    /\ last.ret = "dict"
    /\ last.days_back = WeekBack
    /\ c \in DOMAIN last.value[1]
    /\ \E d \in Window(WeekBack) :
            /\ HoursOn(d, c) = Rat(2, 1)
            /\ \A e \in Window(WeekBack) \ {d} : HoursOn(e, c) = Zero

\* C24: in Scenario C the category's total_hours is 2, its average_per_day is
\* 2/7, its days_active is 1 and its max_day_hours is 2.
C24_ScenarioC ==
    \A c \in Names :
        ScenarioC(c)
        => /\ last.value[1][c].total_hours = Rat(2, 1)
           /\ last.value[1][c].average_per_day = Rat(2, WeekBack)
           /\ last.value[1][c].days_active = 1
           /\ last.value[1][c].max_day_hours = Rat(2, 1)

\* C24, amended: in Scenario C the category's total_hours is 2, its
\* average_per_day is 2/8 (get_category_totals(7) scans 8 dates), its
\* days_active is 1 and its max_day_hours is 2.
C24_ScenarioC_Amended ==
    \A c \in Names :
        ScenarioC(c)
        => /\ last.value[1][c].total_hours = Rat(2, 1)
           /\ last.value[1][c].average_per_day = Rat(2, WeekBack + 1)
           /\ last.value[1][c].days_active = 1
           /\ last.value[1][c].max_day_hours = Rat(2, 1)

\* Scenario C with the active date in the middle of the window
C24_Witness ==
    /\ ScenarioC("programming")
    /\ HoursOn(3, "programming") = Rat(2, 1)
    /\ last.value[1]["programming"].average_per_day = Rat(1, 4)

\* C25: get_daily_stats(date) has an entry exactly for the categories whose
\* total on that date is not zero, and the entry is the total divided by 3600.
C25_DailyStatsNonzero ==
    (last.op = "get_daily_stats" /\ last.ret = "dict")
    => LET totals == Record(last.date).total_by_category
           stats == last.value[1]
       IN /\ DOMAIN stats = {c \in DOMAIN totals : totals[c] # 0}
          /\ \A c \in DOMAIN stats : stats[c] = Rat(totals[c], SecondsPerHour)

\* the sum of the percentages of a list of segments
RECURSIVE PercentSum(_)
PercentSum(segments) ==
    IF segments = <<>> THEN Zero
    ELSE RatAdd(Head(segments).percentage, PercentSum(Tail(segments)))

\* C26: in every entry of get_productivity_calendar with total_hours > 0 the
\* percentages of the segments sum to 100 and each is 100 * hours / total_hours;
\* in every entry with total_hours = 0 there is no segment.
C26_CalendarPercentages ==
    (last.op = "get_productivity_calendar" /\ last.ret = "list")
    => \A i \in 1..Len(last.value[1]) :
          LET e == last.value[1][i]
          IN IF RatLess(Zero, e.total_hours)
             THEN /\ PercentSum(e.category_segments) = Rat(Percent, 1)
                  /\ \A k \in 1..Len(e.category_segments) :
                        LET seg == e.category_segments[k]
                        IN seg.percentage =
                              Rat(Percent * seg.hours.num * e.total_hours.den,
                                  seg.hours.den * e.total_hours.num)
             ELSE e.total_hours = Zero /\ e.category_segments = <<>>

\* a calendar with a day of two segments and a day whose only total is zero
C26_Witness ==
    /\ last.op = "get_productivity_calendar"
    /\ last.ret = "list"
    /\ \E i \in 1..Len(last.value[1]) : Len(last.value[1][i].category_segments) = 2
    /\ \E i \in 1..Len(last.value[1]) :
          /\ last.value[1][i].total_hours = Zero
          /\ DOMAIN last.value[1][i].categories # {}

\* C27: get_productivity_insights never raises; on a store without any daily
\* file and with the default categories it returns no insight; the "most
\* tracked activity" insight appears only when some category has tracked time.
C27_InsightsNeedData ==
    last.op = "get_productivity_insights"
    => /\ last.ret = "list"
       /\ (available_dates(files) = {} /\ config = DefaultCategories)
            => last.value[1] = <<>>
       /\ (\E i \in 1..Len(last.value[1]) : last.value[1][i].kind = "top")
            => \E d \in available_dates(files) :
                  \E c \in DOMAIN files[d][1].total_by_category :
                        files[d][1].total_by_category[c] > 0

AggregationOps ==
    {"get_daily_stats", "get_daily_sessions", "get_category_totals", "get_daily_totals",
     "get_productivity_calendar", "get_weekly_patterns", "get_monthly_trends",
     "get_productivity_insights"}

\* C28: a step of one of the eight aggregation operations (a step that is not
\* a tick of the clock and ends with `last` naming the operation), whatever
\* came before it, leaves the category list, the current session and its persisted
\* record, every daily record and the result of list_available_dates unchanged.
C28_AggregationsReadOnly ==
    [][(last'.op \in AggregationOps /\ now' = now)
        => /\ config' = config
           /\ config_file' = config_file
           /\ current_session' = current_session
           /\ current_session_file' = current_session_file
           /\ files' = files
           /\ available_dates(files') = available_dates(files)]_vars

\* an aggregation has run while a session was open and a record was stored,
\* and has created the month directory of a date without a file
C28_Witness ==
    /\ last.op \in AggregationOps
    /\ current_session # None
    /\ current_session_file = current_session
    /\ available_dates(files) # {}
    /\ \E m \in dirs : \A d \in available_dates(files) : month_of(d) # m

\* C29: for every date, the hours of total_by_category (the values as
\* get_daily_stats reports them) summed and multiplied by 3600 equal the sum
\* of the stored durations, in seconds, of the sessions of that date's record.
C29_TotalsMatchDurations ==
    \A d \in Dates :
        get_daily_stats(files, d).tag = "dict"
        => LET stats == get_daily_stats(files, d).value[1]
               sessions == Record(d).sessions
           IN RatTimes(RatSum(DOMAIN stats, stats), SecondsPerHour)
                = Rat(SumSeq([i \in 1..Len(sessions) |-> sessions[i].duration]), 1)

\* C31: an import keeps the totals of every daily record true.  After
\* migrate_from_old_format returned True, on a fresh store or not, every
\* total_by_category[c] of every record is the sum of the stored durations of
\* the record's sessions with category c.
C31_ImportKeepsTotals ==
    (last.op = "migrate" /\ last.ret = "True")
    => \A d \in Dates :
          LET record == Record(d)
          IN \A c \in DOMAIN record.total_by_category :
                record.total_by_category[c] = SumDuration(record.sessions, c)

\* C32: the import is repeated on every startup.  A startup with a data.json
\* runs the import; a successful import leaves a backup equal to data.json; no
\* step removes or changes data.json, so the import is run again by every later
\* startup, and each successful one adds the seconds of the legacy sessions to
\* the stored totals once more.
C32_ImportRepeated ==
    [][/\ data_file' = data_file
       /\ (last'.op = "startup" /\ data_file # None) => last'.ret \in {"True", "False"}
       /\ (last'.op = "startup" /\ last'.ret = "True") => backup_file' = data_file
       /\ (last'.op = "startup" /\ last'.ret = "True" /\ last' # last)
            => StoredTotals(files') = StoredTotals(files) + LegacySeconds(data_file)]_vars

\* two startups in a row, both with a successful import, and the stored totals
\* after the second differ from those before it
C32_Witness ==
    /\ last.op = "startup"
    /\ last.again
    /\ last.ret = "True"
    /\ data_file # None
    /\ backup_file = data_file
    /\ last.totals > 0
    /\ StoredTotals(files) # last.totals

\* the number of consecutive days with tracked time, ending on date d
HasTime(d) == files[d] # None /\ TotalOf(files[d][1].total_by_category) > 0

DaysInARow(d) ==
    CHOOSE k \in 0..(d + 1) :
        /\ \A e \in (d - k + 1)..d : HasTime(e)
        /\ k <= d => ~HasTime(d - k)

\* C33: the streak search ends, loads no record of a date more than 100 days
\* before today, and reports the number of consecutive days with tracked time
\* ending today, at most 100.
C33_StreakCapped ==
    last.op = "current_streak"
    => /\ last.ret = "int"
       /\ \A i \in 1..Len(last.scanned) : last.scanned[i] >= StreakToday - StreakCap
       /\ last.value <= StreakCap
       /\ last.value = IF DaysInARow(StreakToday) <= StreakCap
                       THEN DaysInARow(StreakToday) ELSE StreakCap

\* C34: once stop() has cleared the flag, every refresh loop that was running
\* ends: it eventually returns.
C34_LoopStops ==
    \A t \in 1..MaxThreads :
        (t \in Spawned /\ update_threads[t].stopped)
            ~> (t \in Spawned /\ update_threads[t].pc = "exited")

\* a session as the old API shows it
Triple(x) == [category |-> x.category, start |-> x.start, end |-> x.end]

\* C35: the wrapper keeps the old API.  After every call made on both
\* trackers, the two results are the same (a returned session compared by
\* category, start and end) and the trackers agree on get_categories,
\* get_current_session and the (category, start, end) of get_sessions.
C35_SameApi ==
    "flat_ret" \in DOMAIN last
    => /\ last.ret = last.flat_ret.tag
       /\ last.ret = "session"
            => Triple(last.session[1]) = Triple(last.flat_ret.session[1])
       /\ config = data.categories
       /\ current_session = data.current
       /\ LET sessions == get_sessions(files)
          IN [i \in 1..Len(sessions) |-> Triple(sessions[i])] = data.sessions

\* C36: exactly-once recording with two threads.  In every step, every daily
\* record keeps the sessions it held, in place (none is lost by an overwrite),
\* and a step that makes a record longer appends one session, which is the
\* session open at that moment (none is appended a second time after it was
\* closed).
C36_ExactlyOnce ==
    [][\A d \in Dates :
          LET before == load_daily_data(files, d).sessions
              after == load_daily_data(files', d).sessions
          IN /\ Len(after) >= Len(before)
             /\ \A i \in 1..Len(before) : after[i] = before[i]
             /\ Len(after) > Len(before)
                  => /\ Len(after) = Len(before) + 1
                     /\ current_session # None
                     /\ after[Len(after)].category = current_session[1].category
                     /\ after[Len(after)].start = current_session[1].start]_vars

\* C37: a failed write leaves memory and storage in agreement.  After
\* start_session, add_category or remove_category ended with the error of
\* its write, the current session in memory is the one current_session.json
\* holds and the category list in memory is the one config.json holds (the
\* files hold what was last written with success).
C37_FailedWriteAgrees ==
    (last.ret = "OSError"
        /\ last.op \in {"start_session", "add_category", "remove_category"})
    => /\ current_session = current_session_file
       /\ config = config_file

\* C38: sessions never overlap.  Under a clock that never goes back and calls
\* made one after the other, the closed sessions in the order they were
\* closed (date of the record, then position in its list) satisfy
\* next.start >= previous.end, the open session starts no earlier than any
\* closed session ends, and the list of every record is in non-decreasing
\* order of start.
ClosedBefore(p, q) == p[1] < q[1] \/ (p[1] = q[1] /\ p[2] < q[2])

SessionAt(p) == Record(p[1]).sessions[p[2]]

C38_NoOverlap ==
    /\ \A p, q \in AllSessions :
          ClosedBefore(p, q) => SessionAt(q).start >= SessionAt(p).end
    /\ current_session # None =>
          \A p \in AllSessions : current_session[1].start >= SessionAt(p).end
    /\ \A d \in Dates : \A i, j \in 1..Len(Record(d).sessions) :
          i < j => Record(d).sessions[i].start <= Record(d).sessions[j].start

\* two sessions that took time were closed one after the other and a third
\* one is open
C38_Witness ==
    /\ current_session # None
    /\ \E p, q \in AllSessions :
          /\ ClosedBefore(p, q)
          /\ SessionAt(p).duration > 0
          /\ SessionAt(q).duration > 0

\* C39: get_category_totals accounts for all recorded time.  Whatever
\* add_category, remove_category, start_session and stop_session calls came
\* before, every category other than "stop" with recorded time on a date of
\* the window is reported, with total_hours the sum of its get_daily_stats
\* hours over the window.
C39_TotalsCoverRecordedTime ==
    (last.op = "get_category_totals" /\ last.ret = "dict")
    => LET W == Window(last.days_back)
           stats == last.value[1]
       IN \A c \in Names \ {"stop"} :
             (\E d \in W : RatLess(Zero, HoursOn(d, c)))
             => /\ c \in DOMAIN stats
                /\ stats[c].total_hours = RatSum(W, [d \in W |-> HoursOn(d, c)])

\* C40: a failed import is all-or-nothing.  Whenever migrate_from_old_format
\* returns False (no file, or an error part-way through), the category list,
\* the current session and every daily record are as they were before the
\* call.
C40_FailedImportChangesNothing ==
    [][(last'.op = "migrate" /\ last'.ret = "False")
        => /\ config' = config
           /\ current_session' = current_session
           /\ \A d \in Dates : load_daily_data(files', d) = load_daily_data(files, d)]_vars

====
